---------------------------- MODULE Spec2Model ----------------------------
(***************************************************************************)
(* A model of the ingestion pipeline of the transit analytics dashboard:   *)
(*   src/src/ingestion/data_quality.py   (DataQualityValidator)            *)
(*   src/src/ingestion/gtfs_rt_parser.py (GTFSRealtimeParser)              *)
(*   src/src/ingestion/s3_uploader.py    (S3Uploader)                      *)
(*                                                                         *)
(* Python values are tagged records [k, v]: k is the kind of value and v   *)
(* its content.  A string is a sequence of one-character strings, so that  *)
(* f-string concatenation and strftime are computed, not assumed.  A dict  *)
(* is a record whose missing keys hold Absent.                             *)
(***************************************************************************)
EXTENDS Integers, Sequences, FiniteSets, Bags, TLC

VARIABLES
    seen_vehicles,      \* DataQualityValidator.seen_vehicles
    seen_trip_updates,  \* DataQualityValidator.seen_trip_updates
    stats,              \* DataQualityValidator.stats
    accepted,           \* history: bag of records returned since the last cache reset, per kind
    op,                 \* observation: the last validator call, its input and what it returned
    fed,                \* number of records handed to the validator so far
    probe,              \* the record a caller holds to validate (ValidationSpec only)
    net,                \* what the two feed URLs serve: a fetch outcome and a feed each
    pcall,              \* observation: the last parser call and what it returned
    s3,                 \* the bucket: the body stored under each object key
    archived,           \* history: the upload_json calls that wrote an object
    ucall,              \* observation: the last upload_json call and what it returned
    table,              \* the DynamoDB table: the item stored under each (pk, sk)
    dcall,              \* observation: the last batch write call and what it returned
    inv,                \* the handler invocations: position, locals and response of each
    clock,              \* the last reading of datetime.now()
    loader              \* a load_* call of the dashboard: position, items, last response

gateVars == <<seen_vehicles, seen_trip_updates, stats, accepted, op, fed, probe>>

parserVars == <<net, pcall>>

archiveVars == <<s3, archived, ucall>>

storeVars == <<table, dcall>>

handlerVars == <<inv, clock>>

loaderVars == <<loader>>

vars == <<gateVars, parserVars, archiveVars, storeVars, handlerVars, loaderVars>>

-----------------------------------------------------------------------------
(* Bounds of the model *)

MaxRecords == 4 \* records handed to one validator, over all of its calls
MaxWire == 3    \* entities plus stop time updates the two feed URLs serve together
MaxUploads == 3 \* upload_json calls on one bucket
MaxChunks == 3  \* chunks of batch_size records handed to one batch write
MaxPages == 4   \* scan calls of one load_* call
MaxPageItems == 2501 \* items of one page of a scan that pass the filter

-----------------------------------------------------------------------------
(* Python values *)

Absent == [k |-> "absent", v |-> 0]     \* key not in the dict
Null == [k |-> "null", v |-> 0]         \* None
NaN == [k |-> "nan", v |-> 0]           \* float('nan')
Num(n) == [k |-> "num", v |-> n]        \* a number
Str(s) == [k |-> "str", v |-> s]        \* a string, as its characters

\* `field not in record or record[field] is None`
IsMissingOrNone(record, field) == record[field].k \in {"absent", "null"}

\* record.get(field)
Get(record, field) == IF record[field].k = "absent" THEN Null ELSE record[field]

\* Python's x < n and x > n on a float or int x: every comparison with NaN is False
Less(x, n) == x.k = "num" /\ x.v < n
Greater(x, n) == x.k = "num" /\ x.v > n

Digit(d) == <<"0", "1", "2", "3", "4", "5", "6", "7", "8", "9">>[d + 1]

RECURSIVE Digits(_)
Digits(n) == IF n < 10 THEN <<Digit(n)>> ELSE Digits(n \div 10) \o <<Digit(n % 10)>>

\* f"{x}": str(x)
Format(x) ==
    CASE x.k = "str" -> x.v
      [] x.k = "num" -> IF x.v < 0 THEN <<"-">> \o Digits(-x.v) ELSE Digits(x.v)
      [] x.k = "nan" -> <<"n", "a", "n">>
      [] OTHER -> <<"N", "o", "n", "e">>

-----------------------------------------------------------------------------
(* data_quality.py: validation *)

VEHICLE_REQUIRED_FIELDS == {"vehicle_id", "latitude", "longitude", "timestamp"}

TRIP_UPDATE_REQUIRED_FIELDS == {"trip_id", "stop_id", "feed_timestamp"}

validate_vehicle_position(record) ==
    IF \E field \in VEHICLE_REQUIRED_FIELDS : IsMissingOrNone(record, field)
    THEN FALSE
    ELSE LET lat == Get(record, "latitude")
             lon == Get(record, "longitude")
             speed == Get(record, "speed")
         IN  IF lat.k # "null" /\ (Less(lat, -90) \/ Greater(lat, 90)) THEN FALSE
             ELSE IF lon.k # "null" /\ (Less(lon, -180) \/ Greater(lon, 180)) THEN FALSE
             ELSE IF speed.k # "null" /\ Less(speed, 0) THEN FALSE
             ELSE TRUE

\* A validation that also requires the arrival delay
validate_trip_update_needs_delay(record) ==
    IF \E field \in TRIP_UPDATE_REQUIRED_FIELDS \cup {"arrival_delay"} :
          IsMissingOrNone(record, field)
    THEN FALSE
    ELSE TRUE

validate_trip_update(record) ==
    IF \E field \in TRIP_UPDATE_REQUIRED_FIELDS : IsMissingOrNone(record, field)
    THEN FALSE
    ELSE TRUE

-----------------------------------------------------------------------------
(* data_quality.py: deduplication *)

\* A key that also holds the speed, a field of the payload
VehicleKeyWithPayload(record) ==
    Format(Get(record, "vehicle_id")) \o <<"_">> \o Format(Get(record, "timestamp"))
        \o <<"_">> \o Format(Get(record, "speed"))

\* f"{record.get('vehicle_id')}_{record.get('timestamp')}"
VehicleKey(record) ==
    Format(Get(record, "vehicle_id")) \o <<"_">> \o Format(Get(record, "timestamp"))

\* f"{record.get('trip_id')}_{record.get('stop_id')}_{record.get('feed_timestamp')}"
TripUpdateKey(record) ==
    Format(Get(record, "trip_id")) \o <<"_">> \o Format(Get(record, "stop_id"))
        \o <<"_">> \o Format(Get(record, "feed_timestamp"))

\* The loop of deduplicate_vehicle_positions from record i on; st holds
\* unique_records, self.seen_vehicles and the duplicates counted so far.
RECURSIVE DedupVehiclesFrom(_, _, _)
DedupVehiclesFrom(records, i, st) ==
    IF i > Len(records) THEN st
    ELSE LET key == VehicleKey(records[i])
         IN  IF key \notin st.seen
             THEN DedupVehiclesFrom(records, i + 1,
                    [st EXCEPT !.seen = @ \cup {key}, !.unique = Append(@, records[i])])
             ELSE DedupVehiclesFrom(records, i + 1, [st EXCEPT !.dup = @ + 1])

\* A deduplication that works on a copy of the cache: the keys are not kept
deduplicate_vehicle_positions_forgets(records, seen) ==
    [DedupVehiclesFrom(records, 1, [unique |-> <<>>, seen |-> seen, dup |-> 0])
        EXCEPT !.seen = seen]

deduplicate_vehicle_positions(records, seen) ==
    DedupVehiclesFrom(records, 1, [unique |-> <<>>, seen |-> seen, dup |-> 0])

RECURSIVE DedupTripUpdatesFrom(_, _, _)
DedupTripUpdatesFrom(records, i, st) ==
    IF i > Len(records) THEN st
    ELSE LET key == TripUpdateKey(records[i])
         IN  IF key \notin st.seen
             THEN DedupTripUpdatesFrom(records, i + 1,
                    [st EXCEPT !.seen = @ \cup {key}, !.unique = Append(@, records[i])])
             ELSE DedupTripUpdatesFrom(records, i + 1, [st EXCEPT !.dup = @ + 1])

deduplicate_trip_updates(records, seen) ==
    DedupTripUpdatesFrom(records, 1, [unique |-> <<>>, seen |-> seen, dup |-> 0])

-----------------------------------------------------------------------------
(* The records the validator is fed *)

CharA == <<"a">>
CharB == <<"b">>
UnderA == <<"a", "_", "b">>
UnderC == <<"b", "_", "c">>
CharC == <<"c">>
Time1 == <<"T", "1">>
Time2 == <<"T", "2">>

VehicleRecord(id, ts, lat, lon, speed) ==
    [vehicle_id |-> id, route_id |-> Str(<<"7">>), latitude |-> lat,
     longitude |-> lon, speed |-> speed, timestamp |-> ts]

GoodVehicle == VehicleRecord(Str(CharA), Str(Time1), Num(90), Num(-180), Null)

\* Records fed to a validator that lives across calls: two that share a natural
\* key and differ in payload, one with another key, and an invalid one whose
\* vehicle_id and timestamp are those of a valid one.
VehicleUniverse ==
    { GoodVehicle,
      [GoodVehicle EXCEPT !.speed = Num(5), !.route_id = Null],
      VehicleRecord(Str(CharB), Str(Time1), Num(-90), Num(180), Num(0)),
      [GoodVehicle EXCEPT !.latitude = Num(91)] }

TripUpdateRecord(trip, stop, fts) ==
    [trip_id |-> trip, route_id |-> Str(<<"7">>), vehicle_id |-> Str(CharA),
     stop_id |-> stop, arrival_delay |-> Num(60), departure_delay |-> Num(60),
     feed_timestamp |-> fts]

GoodTripUpdate == TripUpdateRecord(Str(CharA), Str(UnderC), Str(Time1))

\* Two records that share a natural key and differ in payload, one with another
\* feed_timestamp, one whose (trip_id, stop_id) differs and whose joined key
\* is the same ("a" + "b_c" and "a_b" + "c"), and an invalid one.
TripUpdateUniverse ==
    { GoodTripUpdate,
      [GoodTripUpdate EXCEPT !.arrival_delay = Null, !.departure_delay = Absent,
                             !.route_id = Null, !.vehicle_id = Absent],
      TripUpdateRecord(Str(CharA), Str(UnderC), Str(Time2)),
      TripUpdateRecord(Str(UnderA), Str(CharC), Str(Time1)),
      [GoodTripUpdate EXCEPT !.stop_id = Absent] }

\* The record lists of at most n records over S
ListsOf(S, n) == UNION { [1..m -> S] : m \in 0..n }

\* The records a single validation is tried on: every combination of a missing,
\* null, boundary, out-of-range and not-a-number value of the validated fields.
Coordinates(limit) ==
    {Absent, Null, NaN, Num(-limit - 1), Num(-limit), Num(limit), Num(limit + 1)}

VehicleProbes ==
    [vehicle_id : {Absent, Null, Str(CharA)},
     route_id : {Null, Str(<<"7">>)},
     latitude : Coordinates(90),
     longitude : Coordinates(180),
     speed : {Absent, Null, NaN, Num(-1), Num(0), Num(5)},
     timestamp : {Absent, Null, Str(Time1)}]

TripUpdateProbes ==
    [trip_id : {Absent, Null, Str(CharA)},
     route_id : {Absent, Null, Str(<<"7">>)},
     vehicle_id : {Absent, Null, Str(CharA)},
     stop_id : {Absent, Null, Str(CharC)},
     arrival_delay : {Absent, Null, Num(-60), Num(0)},
     departure_delay : {Absent, Null, Num(60)},
     feed_timestamp : {Absent, Null, Str(Time1)}]

-----------------------------------------------------------------------------
(* DataQualityValidator *)

ZeroStats ==
    [vehicles_processed |-> 0, vehicles_valid |-> 0, vehicles_invalid |-> 0,
     vehicles_duplicate |-> 0, trip_updates_processed |-> 0,
     trip_updates_valid |-> 0, trip_updates_invalid |-> 0,
     trip_updates_duplicate |-> 0]

\* What is observed of a call: its name, its argument, the list (or the boolean)
\* it returned, the duplicate counter of its kind before it, and whether it
\* repeats the call before it with the same argument.
NoOp == [name |-> "none", input |-> <<>>, output |-> <<>>, result |-> FALSE,
         dupBefore |-> 0, repeat |-> FALSE]

RECURSIVE SeqToBag(_)
SeqToBag(s) == IF s = <<>> THEN EmptyBag ELSE SetToBag({Head(s)}) (+) SeqToBag(Tail(s))

\* DataQualityValidator.__init__
GateInit ==
    /\ seen_vehicles = {}
    /\ seen_trip_updates = {}
    /\ stats = ZeroStats
    /\ accepted = [vehicles |-> EmptyBag, trip_updates |-> EmptyBag]
    /\ op = NoOp
    /\ fed = 0
    /\ probe = [kind |-> "none", record |-> Null]

\* A cleaning that deduplicates the records as given, not those that passed
CleanVehiclesDedupAll(records, seen) ==
    [valid |-> SelectSeq(records, validate_vehicle_position),
     dedup |-> deduplicate_vehicle_positions(records, seen)]

\* The body of validate_and_clean_vehicles on a validator whose cache is seen:
\* the records that pass validation, then their deduplication.
CleanVehicles(records, seen) ==
    LET valid_records == SelectSeq(records, validate_vehicle_position)
    IN  [valid |-> valid_records,
         dedup |-> deduplicate_vehicle_positions(valid_records, seen)]

\* A body that deduplicates the whole list and validates afterwards: the keys
\* of invalid records enter the cache
CleanTripUpdatesCachingAll(records, seen) ==
    LET all == deduplicate_trip_updates(records, seen)
    IN  [valid |-> SelectSeq(records, validate_trip_update),
         dedup |-> [all EXCEPT !.unique = SelectSeq(@, validate_trip_update)]]

CleanTripUpdates(records, seen) ==
    LET valid_records == SelectSeq(records, validate_trip_update)
    IN  [valid |-> valid_records,
         dedup |-> deduplicate_trip_updates(valid_records, seen)]

\* A validator that counts as valid only the records it returns
validate_and_clean_vehicles_counts_returned(records) ==
    LET c == CleanVehicles(records, seen_vehicles)
    IN  /\ fed + Len(records) <= MaxRecords
        /\ fed' = fed + Len(records)
        /\ stats' = [stats EXCEPT
                        !.vehicles_processed = @ + Len(records),
                        !.vehicles_valid = @ + Len(c.dedup.unique),
                        !.vehicles_invalid = @ + (Len(records) - Len(c.valid)),
                        !.vehicles_duplicate = @ + c.dedup.dup]
        /\ seen_vehicles' = c.dedup.seen
        /\ accepted' = [accepted EXCEPT !.vehicles = @ (+) SeqToBag(c.dedup.unique)]
        /\ op' = [NoOp EXCEPT
                    !.name = "validate_and_clean_vehicles",
                    !.input = records,
                    !.output = c.dedup.unique,
                    !.dupBefore = stats.vehicles_duplicate,
                    !.repeat = (op.name = "validate_and_clean_vehicles"
                                /\ op.input = records)]
        /\ UNCHANGED <<seen_trip_updates, probe>>

validate_and_clean_vehicles(records) ==
    LET c == CleanVehicles(records, seen_vehicles)
    IN  /\ fed + Len(records) <= MaxRecords
        /\ fed' = fed + Len(records)
        /\ stats' = [stats EXCEPT
                        !.vehicles_processed = @ + Len(records),
                        !.vehicles_valid = @ + Len(c.valid),
                        !.vehicles_invalid = @ + (Len(records) - Len(c.valid)),
                        !.vehicles_duplicate = @ + c.dedup.dup]
        /\ seen_vehicles' = c.dedup.seen
        /\ accepted' = [accepted EXCEPT !.vehicles = @ (+) SeqToBag(c.dedup.unique)]
        /\ op' = [NoOp EXCEPT
                    !.name = "validate_and_clean_vehicles",
                    !.input = records,
                    !.output = c.dedup.unique,
                    !.dupBefore = stats.vehicles_duplicate,
                    !.repeat = (op.name = "validate_and_clean_vehicles"
                                /\ op.input = records)]
        /\ UNCHANGED <<seen_trip_updates, probe>>

validate_and_clean_trip_updates(records) ==
    LET c == CleanTripUpdates(records, seen_trip_updates)
    IN  /\ fed + Len(records) <= MaxRecords
        /\ fed' = fed + Len(records)
        /\ stats' = [stats EXCEPT
                        !.trip_updates_processed = @ + Len(records),
                        !.trip_updates_valid = @ + Len(c.valid),
                        !.trip_updates_invalid = @ + (Len(records) - Len(c.valid)),
                        !.trip_updates_duplicate = @ + c.dedup.dup]
        /\ seen_trip_updates' = c.dedup.seen
        /\ accepted' = [accepted EXCEPT !.trip_updates = @ (+) SeqToBag(c.dedup.unique)]
        /\ op' = [NoOp EXCEPT
                    !.name = "validate_and_clean_trip_updates",
                    !.input = records,
                    !.output = c.dedup.unique,
                    !.dupBefore = stats.trip_updates_duplicate,
                    !.repeat = (op.name = "validate_and_clean_trip_updates"
                                /\ op.input = records)]
        /\ UNCHANGED <<seen_vehicles, probe>>

reset_stats ==
    /\ stats' = [f \in DOMAIN stats |-> 0]
    /\ op' = [NoOp EXCEPT !.name = "reset_stats"]
    /\ UNCHANGED <<seen_vehicles, seen_trip_updates, accepted, fed, probe>>

\* A reset that clears the vehicle keys only
reset_dedup_cache_vehicles_only ==
    /\ seen_vehicles' = {}
    /\ accepted' = [accepted EXCEPT !.vehicles = EmptyBag]
    /\ op' = [NoOp EXCEPT !.name = "reset_dedup_cache"]
    /\ UNCHANGED <<seen_trip_updates, stats, fed, probe>>

reset_dedup_cache ==
    /\ seen_vehicles' = {}
    /\ seen_trip_updates' = {}
    /\ accepted' = [vehicles |-> EmptyBag, trip_updates |-> EmptyBag]
    /\ op' = [NoOp EXCEPT !.name = "reset_dedup_cache"]
    /\ UNCHANGED <<stats, fed, probe>>

-----------------------------------------------------------------------------
(* datetime: fromtimestamp, now and isoformat *)

RECURSIVE Pad(_, _)
\* the decimal digits of n, zero-padded to width w (strftime's and isoformat's fields)
Pad(n, w) == IF Len(Digits(n)) >= w THEN Digits(n) ELSE <<"0">> \o Pad(n, w - 1)

\* datetime.fromtimestamp(t) for an epoch second t of January 1970, the local
\* time zone being UTC
FromTimestamp(t) ==
    [year |-> 1970, month |-> 1, day |-> 1 + (t \div 86400),
     hour |-> (t % 86400) \div 3600, minute |-> (t % 3600) \div 60,
     second |-> t % 60, microsecond |-> 0]

\* datetime.isoformat(): the microseconds are written only when not zero
IsoFormat(dt) ==
    Pad(dt.year, 4) \o <<"-">> \o Pad(dt.month, 2) \o <<"-">> \o Pad(dt.day, 2)
        \o <<"T">> \o Pad(dt.hour, 2) \o <<":">> \o Pad(dt.minute, 2)
        \o <<":">> \o Pad(dt.second, 2)
        \o (IF dt.microsecond = 0 THEN <<>> ELSE <<".">> \o Pad(dt.microsecond, 6))

\* The readings datetime.now() may give during a parse
ClockReadings ==
    { FromTimestamp(60), [FromTimestamp(75) EXCEPT !.microsecond = 250000] }

-----------------------------------------------------------------------------
(* The GTFS-realtime messages on the wire.  An optional scalar is Absent or a
   value; a sub-message has a presence flag.  Reading an unset scalar gives
   the protobuf default: the empty string or zero. *)

ReadString(x) == IF x.k = "absent" THEN Str(<<>>) ELSE x

\* msg.HasField(name) of an optional scalar
HasField(x) == x.k # "absent"

VehicleDescriptor(present, id) == [present |-> present, id |-> id]

TripDescriptor(present, trip_id, route_id) ==
    [present |-> present, trip_id |-> trip_id, route_id |-> route_id]

Position(present, bearing, speed) ==
    [present |-> present, latitude |-> Num(53), longitude |-> Num(-113),
     bearing |-> bearing, speed |-> speed]

StopTimeEvent(present, delay, time) ==
    [present |-> present, delay |-> delay, time |-> time]

NoVehiclePosition ==
    [present |-> FALSE, vehicle |-> VehicleDescriptor(FALSE, Absent),
     trip |-> TripDescriptor(FALSE, Absent, Absent),
     position |-> Position(FALSE, Absent, Absent), timestamp |-> Absent,
     current_stop_sequence |-> Absent, current_status |-> Absent,
     congestion_level |-> Absent]

NoTripUpdate ==
    [present |-> FALSE, trip |-> TripDescriptor(FALSE, Absent, Absent),
     vehicle |-> VehicleDescriptor(FALSE, Absent), stop_time_update |-> <<>>]

VehicleEntity(vp) == [vehicle |-> [vp EXCEPT !.present = TRUE], trip_update |-> NoTripUpdate]

TripUpdateEntity(trip, vehicle, stops) ==
    [vehicle |-> NoVehiclePosition,
     trip_update |-> [present |-> TRUE, trip |-> trip, vehicle |-> vehicle,
                      stop_time_update |-> stops]]

\* Vehicle entities: everything set; real zeros; sub-messages present with
\* their optional fields unset; sub-messages absent
VehicleEntities ==
    { VehicleEntity([NoVehiclePosition EXCEPT
          !.vehicle = VehicleDescriptor(TRUE, Str(CharA)),
          !.trip = TripDescriptor(TRUE, Str(CharB), Str(<<"7">>)),
          !.position = Position(TRUE, Num(180), Num(12)),
          !.timestamp = Num(3661), !.current_stop_sequence = Num(4),
          !.current_status = Num(2), !.congestion_level = Num(1)]),
      VehicleEntity([NoVehiclePosition EXCEPT
          !.vehicle = VehicleDescriptor(TRUE, Str(CharA)),
          !.trip = TripDescriptor(TRUE, Str(CharB), Str(<<"7">>)),
          !.position = Position(TRUE, Num(0), Num(0)),
          !.timestamp = Num(0), !.current_stop_sequence = Num(0),
          !.current_status = Num(0), !.congestion_level = Num(0)]),
      VehicleEntity([NoVehiclePosition EXCEPT
          !.vehicle = VehicleDescriptor(TRUE, Absent),
          !.trip = TripDescriptor(TRUE, Absent, Absent),
          !.position = Position(TRUE, Absent, Absent)]),
      VehicleEntity(NoVehiclePosition) }

StopTimeUpdates ==
    { [stop_id |-> Str(CharC), stop_sequence |-> Num(1),
       arrival |-> StopTimeEvent(TRUE, Num(60), Num(3661)),
       departure |-> StopTimeEvent(TRUE, Num(0), Num(0)),
       schedule_relationship |-> Num(0)],
      [stop_id |-> Absent, stop_sequence |-> Absent,
       arrival |-> StopTimeEvent(FALSE, Absent, Absent),
       departure |-> StopTimeEvent(TRUE, Absent, Absent),
       schedule_relationship |-> Absent] }

TripUpdateParents ==
    { <<TripDescriptor(TRUE, Str(CharB), Str(<<"7">>)), VehicleDescriptor(TRUE, Str(CharA))>>,
      <<TripDescriptor(TRUE, Absent, Absent), VehicleDescriptor(TRUE, Absent)>>,
      <<TripDescriptor(FALSE, Absent, Absent), VehicleDescriptor(FALSE, Absent)>> }

\* The trip update entities with exactly n stop time updates
TripUpdateEntities(n) ==
    { TripUpdateEntity(p[1], p[2], stops) :
        p \in TripUpdateParents, stops \in [1..n -> StopTimeUpdates] }

\* An entity of the other kind, which each parse skips
OtherEntityOf(kind) ==
    IF kind = "vehicles"
    THEN TripUpdateEntity(TripDescriptor(TRUE, Str(CharB), Str(<<"7">>)),
                          VehicleDescriptor(TRUE, Str(CharA)), <<>>)
    ELSE VehicleEntity(NoVehiclePosition)

\* What an entity counts for in MaxWire: itself and its stop time updates
Weight(entity) == 1 + Len(entity.trip_update.stop_time_update)

RECURSIVE EntityLists(_, _)
\* The entity lists a feed URL of this kind may serve within weight w
EntityLists(kind, w) ==
    IF w = 0 THEN {<<>>}
    ELSE {<<>>} \cup
         UNION { { <<e>> \o rest : rest \in EntityLists(kind, w - Weight(e)) } :
                 e \in IF kind = "vehicles"
                       THEN VehicleEntities \cup {OtherEntityOf(kind)}
                       ELSE {OtherEntityOf(kind)}
                              \cup UNION { TripUpdateEntities(n) : n \in 0..(w - 1) } }

RECURSIVE TotalWeight(_)
TotalWeight(entities) ==
    IF entities = <<>> THEN 0 ELSE Weight(Head(entities)) + TotalWeight(Tail(entities))

NoFeed == [header_timestamp |-> Absent, entity |-> <<>>]

\* What a URL serves: a decodable feed, or a failure of requests.get, of
\* raise_for_status or of ParseFromString
Responses(kind, w) ==
    [outcome : {"ok"},
     feed : [header_timestamp : {Absent, Num(60)}, entity : EntityLists(kind, w)]]
    \cup [outcome : {"network_error", "http_error", "decode_error"}, feed : {NoFeed}]

ResponseWeight(response) == TotalWeight(response.feed.entity)

-----------------------------------------------------------------------------
(* gtfs_rt_parser.py *)

GTFS_RT_VEHICLE_POSITIONS_URL == "VehiclePositions.pb"

GTFS_RT_TRIP_UPDATES_URL == "TripUpdates.pb"

\* A fetch that lets the exception of a failed fetch leave the call
fetch_protobuf_feed_propagates(response) ==
    IF response.outcome = "ok"
    THEN [raised |-> FALSE, none |-> FALSE, feed |-> response.feed]
    ELSE [raised |-> TRUE, none |-> FALSE, feed |-> NoFeed]

\* fetch_protobuf_feed: the feed, or None after any exception of the fetch
fetch_protobuf_feed(response) ==
    IF response.outcome = "ok"
    THEN [raised |-> FALSE, none |-> FALSE, feed |-> response.feed]
    ELSE [raised |-> FALSE, none |-> TRUE, feed |-> NoFeed]

\* datetime.fromtimestamp(feed.header.timestamp).isoformat() if
\* feed.header.HasField('timestamp') else datetime.now().isoformat()
FeedTimestamp(feed, now) ==
    IF HasField(feed.header_timestamp)
    THEN Str(IsoFormat(FromTimestamp(feed.header_timestamp.v)))
    ELSE Str(IsoFormat(now))

\* The record of one vehicle entity
VehiclePositionRecord(vehicle, feed, now) ==
    [vehicle_id |-> IF vehicle.vehicle.present
                    THEN ReadString(vehicle.vehicle.id) ELSE Null,
     trip_id |-> IF vehicle.trip.present THEN ReadString(vehicle.trip.trip_id) ELSE Null,
     route_id |-> IF vehicle.trip.present THEN ReadString(vehicle.trip.route_id) ELSE Null,
     latitude |-> IF vehicle.position.present THEN vehicle.position.latitude ELSE Null,
     longitude |-> IF vehicle.position.present THEN vehicle.position.longitude ELSE Null,
     bearing |-> IF vehicle.position.present /\ HasField(vehicle.position.bearing)
                 THEN vehicle.position.bearing ELSE Null,
     speed |-> IF vehicle.position.present /\ HasField(vehicle.position.speed)
               THEN vehicle.position.speed ELSE Null,
     timestamp |-> IF HasField(vehicle.timestamp)
                   THEN Str(IsoFormat(FromTimestamp(vehicle.timestamp.v)))
                   ELSE Str(IsoFormat(now)),
     current_stop_sequence |-> IF HasField(vehicle.current_stop_sequence)
                               THEN vehicle.current_stop_sequence ELSE Null,
     current_status |-> IF HasField(vehicle.current_status)
                        THEN vehicle.current_status ELSE Null,
     congestion_level |-> IF HasField(vehicle.congestion_level)
                          THEN vehicle.congestion_level ELSE Null,
     feed_timestamp |-> FeedTimestamp(feed, now)]

RECURSIVE VehicleRecordsFrom(_, _, _)
\* The loop of parse_vehicle_positions from entity i on
VehicleRecordsFrom(feed, i, now) ==
    IF i > Len(feed.entity) THEN <<>>
    ELSE (IF feed.entity[i].vehicle.present
          THEN <<VehiclePositionRecord(feed.entity[i].vehicle, feed, now)>>
          ELSE <<>>) \o VehicleRecordsFrom(feed, i + 1, now)

\* A parse that raises when the feed could not be fetched
parse_vehicle_positions_raises(response, now) ==
    LET f == fetch_protobuf_feed(response)
    IN  IF f.raised \/ f.none THEN [raised |-> TRUE, records |-> <<>>]
        ELSE [raised |-> FALSE, records |-> VehicleRecordsFrom(f.feed, 1, now)]

parse_vehicle_positions(response, now) ==
    LET f == fetch_protobuf_feed(response)
    IN  IF f.raised THEN [raised |-> TRUE, records |-> <<>>]
        ELSE IF f.none THEN [raised |-> FALSE, records |-> <<>>]
        ELSE [raised |-> FALSE, records |-> VehicleRecordsFrom(f.feed, 1, now)]

\* The record of one stop time update of a trip update
StopTimeUpdateRecord(trip_update, stop_time_update, feed, now) ==
    [trip_id |-> IF trip_update.trip.present
                 THEN ReadString(trip_update.trip.trip_id) ELSE Null,
     route_id |-> IF trip_update.trip.present
                  THEN ReadString(trip_update.trip.route_id) ELSE Null,
     vehicle_id |-> IF trip_update.vehicle.present
                    THEN ReadString(trip_update.vehicle.id) ELSE Null,
     stop_id |-> IF HasField(stop_time_update.stop_id)
                 THEN stop_time_update.stop_id ELSE Null,
     stop_sequence |-> IF HasField(stop_time_update.stop_sequence)
                       THEN stop_time_update.stop_sequence ELSE Null,
     arrival_delay |-> IF stop_time_update.arrival.present
                          /\ HasField(stop_time_update.arrival.delay)
                       THEN stop_time_update.arrival.delay ELSE Null,
     arrival_time |-> IF stop_time_update.arrival.present
                         /\ HasField(stop_time_update.arrival.time)
                      THEN Str(IsoFormat(FromTimestamp(stop_time_update.arrival.time.v)))
                      ELSE Null,
     departure_delay |-> IF stop_time_update.departure.present
                            /\ HasField(stop_time_update.departure.delay)
                         THEN stop_time_update.departure.delay ELSE Null,
     departure_time |-> IF stop_time_update.departure.present
                           /\ HasField(stop_time_update.departure.time)
                        THEN Str(IsoFormat(FromTimestamp(stop_time_update.departure.time.v)))
                        ELSE Null,
     schedule_relationship |-> IF HasField(stop_time_update.schedule_relationship)
                               THEN stop_time_update.schedule_relationship ELSE Null,
     feed_timestamp |-> FeedTimestamp(feed, now)]

\* One record for the first stop time update only
FirstStopTimeUpdateRecord(trip_update, feed, now) ==
    IF trip_update.stop_time_update = <<>> THEN <<>>
    ELSE <<StopTimeUpdateRecord(trip_update, trip_update.stop_time_update[1], feed, now)>>

\* The inner loop of parse_trip_updates: the records of one trip update
TripUpdateRecords(trip_update, feed, now) ==
    [j \in 1..Len(trip_update.stop_time_update) |->
        StopTimeUpdateRecord(trip_update, trip_update.stop_time_update[j], feed, now)]

RECURSIVE TripRecordsFrom(_, _, _)
\* The outer loop of parse_trip_updates from entity i on
TripRecordsFrom(feed, i, now) ==
    IF i > Len(feed.entity) THEN <<>>
    ELSE (IF feed.entity[i].trip_update.present
          THEN TripUpdateRecords(feed.entity[i].trip_update, feed, now)
          ELSE <<>>) \o TripRecordsFrom(feed, i + 1, now)

parse_trip_updates(response, now) ==
    LET f == fetch_protobuf_feed(response)
    IN  IF f.raised THEN [raised |-> TRUE, records |-> <<>>]
        ELSE IF f.none THEN [raised |-> FALSE, records |-> <<>>]
        ELSE [raised |-> FALSE, records |-> TripRecordsFrom(f.feed, 1, now)]

\* parse_all: the dict is built in order, and an exception of the first parse
\* would leave the second one unevaluated
parse_all(responses, now) ==
    LET v == parse_vehicle_positions(responses.vehicles, now)
        t == parse_trip_updates(responses.trip_updates, now)
    IN  IF v.raised
        THEN [raised |-> TRUE, vehicles |-> <<>>, trip_updates |-> <<>>,
              fetched |-> <<GTFS_RT_VEHICLE_POSITIONS_URL>>]
        ELSE [raised |-> t.raised, vehicles |-> v.records,
              trip_updates |-> IF t.raised THEN <<>> ELSE t.records,
              fetched |-> <<GTFS_RT_VEHICLE_POSITIONS_URL, GTFS_RT_TRIP_UPDATES_URL>>]

NoCall == [name |-> "none", raised |-> FALSE, vehicles |-> <<>>, trip_updates |-> <<>>,
           fetched |-> <<>>, now |-> FromTimestamp(0)]


-----------------------------------------------------------------------------
(* s3_uploader.py *)

Chars_transit == <<"t", "r", "a", "n", "s", "i", "t", "/">>

Chars_json == <<".", "j", "s", "o", "n">>

Chars_vehicles == <<"v", "e", "h", "i", "c", "l", "e", "s">>

Chars_trip_updates == <<"t", "r", "i", "p", "_", "u", "p", "d", "a", "t", "e", "s">>

DataTypes == {Chars_vehicles, Chars_trip_updates}

\* timestamp.strftime('%Y%m%d')
StrfDate(timestamp) ==
    Pad(timestamp.year, 4) \o Pad(timestamp.month, 2) \o Pad(timestamp.day, 2)

\* timestamp.strftime('%Y%m%d_%H%M%S')
StrfDateTime(timestamp) ==
    StrfDate(timestamp) \o <<"_">> \o Pad(timestamp.hour, 2)
        \o Pad(timestamp.minute, 2) \o Pad(timestamp.second, 2)

\* A key whose time part stops at the minute ('%Y%m%d_%H%M')
generate_s3_key_by_minute(data_type, timestamp) ==
    Chars_transit \o data_type \o <<"/">> \o StrfDate(timestamp) \o <<"/">>
        \o StrfDate(timestamp) \o <<"_">> \o Pad(timestamp.hour, 2)
        \o Pad(timestamp.minute, 2) \o Chars_json

\* f"transit/{data_type}/{date_str}/{time_str}.json"
generate_s3_key(data_type, timestamp) ==
    Chars_transit \o data_type \o <<"/">> \o StrfDate(timestamp) \o <<"/">>
        \o StrfDateTime(timestamp) \o Chars_json

\* The timestamps handed to upload_json: two in one second, one a second
\* later, and one whose month, day, minute and second are those of the first
\* in another order (11 and 1)
UploadTimestamps ==
    LET t == [year |-> 2024, month |-> 1, day |-> 11, hour |-> 0, minute |-> 1,
              second |-> 11, microsecond |-> 0]
    IN  { t, [t EXCEPT !.microsecond = 500000], [t EXCEPT !.second = 12],
          [t EXCEPT !.month = 11, !.day = 1, !.minute = 11, !.second = 1] }

\* The record lists handed to upload_json
UploadData == { <<>>, <<GoodVehicle>> }

\* What put_object does: it stores the object, raises ClientError, or raises
\* another exception (a botocore connection error is no ClientError)
PutOutcomes == {"ok", "client_error", "other_error"}

\* An upload that does not look at the length of data
upload_json_writes_empty(data, data_type, timestamp, outcome, bucket) ==
    LET s3_key == generate_s3_key(data_type, timestamp)
    IN  CASE outcome = "ok" ->
               [key |-> Str(s3_key), wrote |-> TRUE, raised |-> FALSE, put |-> TRUE,
                bucket |-> [k \in DOMAIN bucket \cup {s3_key} |->
                               IF k = s3_key THEN data ELSE bucket[k]]]
          [] outcome = "client_error" ->
               [key |-> Null, bucket |-> bucket, wrote |-> FALSE, raised |-> FALSE,
                put |-> TRUE]
          [] OTHER ->
               [key |-> Null, bucket |-> bucket, wrote |-> FALSE, raised |-> TRUE,
                put |-> TRUE]

\* upload_json: the returned key (None when nothing was written), the bucket
\* after the call, whether put_object was called, and whether an exception
\* left the call
upload_json(data, data_type, timestamp, outcome, bucket) ==
    IF data = <<>>
    THEN [key |-> Null, bucket |-> bucket, wrote |-> FALSE, raised |-> FALSE,
          put |-> FALSE]
    ELSE LET s3_key == generate_s3_key(data_type, timestamp)
         IN  CASE outcome = "ok" ->
                    [key |-> Str(s3_key), wrote |-> TRUE, raised |-> FALSE, put |-> TRUE,
                     bucket |-> [k \in DOMAIN bucket \cup {s3_key} |->
                                    IF k = s3_key THEN data ELSE bucket[k]]]
               [] outcome = "client_error" ->
                    [key |-> Null, bucket |-> bucket, wrote |-> FALSE, raised |-> FALSE,
                     put |-> TRUE]
               [] OTHER ->
                    [key |-> Null, bucket |-> bucket, wrote |-> FALSE, raised |-> TRUE,
                     put |-> TRUE]

EmptyBucket == [k \in {} |-> <<>>]

NoUpload == [name |-> "none", data |-> <<>>, data_type |-> <<>>,
             timestamp |-> FromTimestamp(0), key |-> Null, raised |-> FALSE,
             put |-> FALSE]

CallUploadJson(data, data_type, timestamp, outcome) ==
    LET r == upload_json(data, data_type, timestamp, outcome, s3)
    IN  /\ Cardinality(archived) < MaxUploads
        /\ s3' = r.bucket
        /\ archived' = IF r.wrote
                       THEN archived \cup {[data_type |-> data_type,
                                            timestamp |-> timestamp, key |-> r.key.v]}
                       ELSE archived
        /\ ucall' = [name |-> "upload_json", data |-> data, data_type |-> data_type,
                     timestamp |-> timestamp, key |-> r.key, raised |-> r.raised,
                     put |-> r.put]

-----------------------------------------------------------------------------
(* dynamodb_writer.py.  table.batch_writer() is boto3's BatchWriter: put_item
   appends to a buffer and flushes it when it holds flush_amount items, and
   leaving the with block flushes what is left.  A flush sends the buffer in
   one batch_write_item, which DynamoDB rejects as a whole when it rejects
   one of its items or when two of its items have the same key. *)

batch_size == 25

flush_amount == 25

Chars_VEHICLE == <<"V", "E", "H", "I", "C", "L", "E", "#">>

Chars_TRIP == <<"T", "R", "I", "P", "#">>

Chars_UNKNOWN == <<"U", "N", "K", "N", "O", "W", "N">>

\* record.get(field, default)
GetOr(record, field, default) ==
    IF record[field].k = "absent" THEN default ELSE record[field]

\* The fields the parser fills from protobuf floats
FloatFields == {"latitude", "longitude", "bearing", "speed"}

\* Decimal(str(obj))
Decimal(x) == IF x.k = "nan" THEN [k |-> "decimal_nan", v |-> 0]
              ELSE [k |-> "decimal", v |-> x.v]

\* convert_floats_to_decimal on a record: a dict of scalars
convert_floats_to_decimal(record) ==
    [f \in DOMAIN record |->
        IF f \in FloatFields /\ record[f].k \in {"num", "nan"}
        THEN Decimal(record[f]) ELSE record[f]]

\* The item of a vehicle position
VehicleItem(record, now) ==
    LET vehicle == convert_floats_to_decimal(record)
    IN  [pk |-> Chars_VEHICLE \o Format(GetOr(vehicle, "route_id", Str(Chars_UNKNOWN))),
         sk |-> Format(GetOr(vehicle, "timestamp", Str(IsoFormat(now)))) \o <<"#">>
                  \o Format(GetOr(vehicle, "vehicle_id", Str(Chars_UNKNOWN))),
         record_type |-> "vehicle_position",
         attributes |-> vehicle]

\* The item of a trip update
TripUpdateItem(record, now) ==
    LET trip_update == convert_floats_to_decimal(record)
    IN  [pk |-> Chars_TRIP \o Format(GetOr(trip_update, "route_id", Str(Chars_UNKNOWN))),
         sk |-> Format(GetOr(trip_update, "feed_timestamp", Str(IsoFormat(now))))
                  \o <<"#">> \o Format(GetOr(trip_update, "trip_id", Str(Chars_UNKNOWN)))
                  \o <<"#">> \o Format(GetOr(trip_update, "stop_id", Str(Chars_UNKNOWN))),
         record_type |-> "trip_update",
         attributes |-> trip_update]

ItemOf(kind, record, now) ==
    IF kind = "vehicles" THEN VehicleItem(record, now) ELSE TripUpdateItem(record, now)

ItemKey(item) == <<item.pk, item.sk>>

EmptyTable == [key \in {} |-> <<>>]

\* PutRequests of distinct keys applied to the table
Upsert(items, sent) ==
    [key \in DOMAIN items \cup { ItemKey(sent[k].item) : k \in DOMAIN sent } |->
        IF \E k \in DOMAIN sent : ItemKey(sent[k].item) = key
        THEN sent[CHOOSE k \in DOMAIN sent : ItemKey(sent[k].item) = key].item
        ELSE items[key]]

\* BatchWriter._flush: the buffer is emptied and sent; a rejected request
\* raises and stores nothing
Flush(st, rejected) ==
    LET sent == st.buffer
        ok == /\ \A k \in DOMAIN sent : sent[k].index \notin rejected
              /\ \A k, l \in DOMAIN sent :
                    ItemKey(sent[k].item) = ItemKey(sent[l].item) => k = l
    IN  [st EXCEPT !.buffer = <<>>,
                   !.flushes = Append(@, [indexes |-> [k \in DOMAIN sent |-> sent[k].index],
                                          ok |-> ok]),
                   !.table = IF ok THEN Upsert(@, sent) ELSE @,
                   !.raised = ~ok]

\* A slice that leaves out the last record of a full batch
BatchShort(records, i) ==
    SubSeq(records, i + 1,
           IF i + batch_size - 1 < Len(records) THEN i + batch_size - 1 ELSE Len(records))

\* records[i:i + batch_size]
Batch(records, i) ==
    SubSeq(records, i + 1,
           IF i + batch_size < Len(records) THEN i + batch_size ELSE Len(records))

RECURSIVE PutFrom(_, _, _, _, _, _, _)
\* `for record in batch` from the j-th record of the batch that starts at i
PutFrom(kind, batch, i, j, st, rejected, now) ==
    IF j > Len(batch) THEN st
    ELSE LET item == ItemOf(kind, batch[j], now)
             buffered == [st EXCEPT !.buffer = Append(@, [index |-> i + j, item |-> item])]
             put == IF Len(buffered.buffer) >= flush_amount
                    THEN Flush(buffered, rejected) ELSE buffered
         IN  IF put.raised
             THEN PutFrom(kind, batch, i, j + 1, [put EXCEPT !.raised = FALSE],
                          rejected, now)
             ELSE PutFrom(kind, batch, i, j + 1, [put EXCEPT !.success_count = @ + 1],
                          rejected, now)

RECURSIVE BatchesFrom(_, _, _, _, _, _)
\* `for i in range(0, len(records), batch_size)` from i on; an exception of
\* the flush on leaving the with block leaves the loop and the call
BatchesFrom(kind, records, i, st, rejected, now) ==
    IF i >= Len(records) \/ st.raised THEN st
    ELSE LET batch == Batch(records, i)
             entered == [st EXCEPT !.opened = Append(@, batch)]
             written == PutFrom(kind, batch, i, 1, entered, rejected, now)
             left == IF written.buffer # <<>> THEN Flush(written, rejected) ELSE written
         IN  BatchesFrom(kind, records, i + batch_size, left, rejected, now)

BatchWrite(kind, records, items, rejected, now) ==
    BatchesFrom(kind, records, 0,
                [table |-> items, buffer |-> <<>>, success_count |-> 0,
                 opened |-> <<>>, flushes |-> <<>>, raised |-> FALSE],
                rejected, now)

batch_write_vehicles(vehicles, items, rejected, now) ==
    BatchWrite("vehicles", vehicles, items, rejected, now)

batch_write_trip_updates(trip_updates, items, rejected, now) ==
    BatchWrite("trip_updates", trip_updates, items, rejected, now)

\* n cleaned records of distinct natural keys
StoreRecords(kind, n) ==
    [i \in 1..n |->
        IF kind = "vehicles"
        THEN VehicleRecord(Str(Digits(i)), Str(Time1), Num(53), Num(-113), Num(i))
        ELSE TripUpdateRecord(Str(Digits(i)), Str(CharC), Str(Time1))]

\* The lengths of the lists handed to a batch write: full batches and a rest
StoreSizes ==
    { c * batch_size + d : c \in 0..(MaxChunks - 1), d \in {0, 1, 7, batch_size - 1} }

\* The records DynamoDB rejects in a list of n: none, or one at the start, at
\* the end of the first batch, at the start of the second, or at the end
RejectedSets(n) ==
    {{}} \cup { {i} : i \in (1..n) \cap {1, batch_size, batch_size + 1, n} }

\* Identifiers of a feed that hold the character the sort key is joined with
HashA == <<"a", "#", "b">>
HashC == <<"b", "#", "c">>

\* The cleaned records with records p and q replaced by two stop records whose
\* trip_id and stop_id differ and hold a "#"
WithHashPair(records, p, q) ==
    [records EXCEPT ![p] = TripUpdateRecord(Str(HashA), Str(CharC), Str(Time1)),
                    ![q] = TripUpdateRecord(Str(CharA), Str(HashC), Str(Time1))]

\* Cleaned lists of n records: distinct identifiers without "#"; for vehicle
\* records the same with a "#" in the first vehicle_id; for stop records the
\* same with a pair of "#" identifiers next to each other, at both ends, or
\* on both sides of the first batch boundary
CleanedLists(kind, n) ==
    {StoreRecords(kind, n)} \cup
    IF kind = "vehicles"
    THEN { [StoreRecords(kind, n) EXCEPT ![1].vehicle_id = Str(HashA)] : x \in 1..(IF n > 0 THEN 1 ELSE 0) }
    ELSE { WithHashPair(StoreRecords(kind, n), pq[1], pq[2]) :
             pq \in { x \in {<<1, 2>>, <<1, n>>, <<batch_size, batch_size + 1>>} :
                        x[1] < x[2] /\ x[2] <= n } }

NoBatchWrite ==
    [name |-> "none", records |-> <<>>, rejected |-> {}, now |-> FromTimestamp(0),
     success_count |-> 0, raised |-> FALSE, opened |-> <<>>, flushes |-> <<>>]

StoreInit == table = EmptyTable /\ dcall = NoBatchWrite

CallBatchWrite(kind, records, rejected, now) ==
    LET r == IF kind = "vehicles"
             THEN batch_write_vehicles(records, table, rejected, now)
             ELSE batch_write_trip_updates(records, table, rejected, now)
    IN  /\ table' = r.table
        /\ dcall' = [name |-> kind, records |-> records, rejected |-> rejected,
                     now |-> now, success_count |-> r.success_count,
                     raised |-> r.raised, opened |-> r.opened, flushes |-> r.flushes]

-----------------------------------------------------------------------------
(* lambda_handler.py.  An invocation is at one of the handler's steps; the
   two uploads of upload_all and the two batch writes are steps of their own.
   Invocations share the feeds, the bucket, the table and the clock. *)

Invocations == {1, 2}

\* The steps of handler in the order of its statements
StepOrder ==
    <<"parse", "validate", "archive_vehicles", "archive_trip_updates",
      "store_vehicles", "store_trip_updates", "report">>

\* An order that writes to DynamoDB before it uploads to S3
StepAfterStoreFirst(step) ==
    CASE step = "parse" -> "validate"
      [] step = "validate" -> "store_vehicles"
      [] step = "store_vehicles" -> "store_trip_updates"
      [] step = "store_trip_updates" -> "archive_vehicles"
      [] step = "archive_vehicles" -> "archive_trip_updates"
      [] step = "archive_trip_updates" -> "report"
      [] OTHER -> "returned"

\* The step that follows a step that raised nothing
StepAfter(step) ==
    IF \E k \in 1..(Len(StepOrder) - 1) : StepOrder[k] = step
    THEN StepOrder[(CHOOSE k \in 1..(Len(StepOrder) - 1) : StepOrder[k] = step) + 1]
    ELSE "returned"

NoResponse == [statusCode |-> 0, body |-> [timestamp |-> <<>>]]

\* The locals of handler at its first statement
Invoked ==
    [pc |-> "parse", steps |-> <<>>,
     vehicles |-> <<>>, trip_updates |-> <<>>,
     clean_vehicles |-> <<>>, clean_trip_updates |-> <<>>, stats |-> ZeroStats,
     timestamp |-> FromTimestamp(0),
     s3_keys |-> [vehicles |-> Null, trip_updates |-> Null],
     put_failed |-> {},
     vehicles_written |-> 0, trip_updates_written |-> 0,
     response |-> NoResponse]

\* The microsecond of the day of a datetime of the model
Instant(dt) ==
    ((dt.hour * 60 + dt.minute) * 60 + dt.second) * 1000000 + dt.microsecond

\* The readings datetime.now() may give to a handler: two in one second and
\* one in a later second
HandlerClockReadings ==
    ClockReadings \cup { [FromTimestamp(60) EXCEPT !.microsecond = 500000] }

\* datetime.now(): no reading is before the last one
ReadClock(now) ==
    /\ now \in HandlerClockReadings
    /\ Instant(now) >= Instant(clock)
    /\ clock' = now

\* An exception that leaves handler
Propagated(locals, step, error) ==
    [locals EXCEPT !.pc = "crashed", !.steps = Append(@, step)]

\* `except Exception as e`: the failure report, dated by the clock as the
\* failing step left it
Caught(locals, step, error) ==
    [locals EXCEPT !.pc = "returned", !.steps = Append(@, step),
                   !.response = [statusCode |-> 500,
                                 body |-> [error |-> error,
                                           timestamp |-> IsoFormat(clock')]]]

\* A step that raised nothing
Passed(locals, step) ==
    [locals EXCEPT !.pc = StepAfter(step), !.steps = Append(@, step)]

\* Step 1: data = parser.parse_all()
Parse(i) ==
    /\ inv[i].pc = "parse"
    /\ \E now \in HandlerClockReadings :
          /\ ReadClock(now)
          /\ LET data == parse_all(net, now)
             IN  inv' = [inv EXCEPT ![i] =
                    IF data.raised THEN Caught(@, "parse", "parse_all")
                    ELSE [Passed(@, "parse") EXCEPT
                             !.vehicles = data.vehicles,
                             !.trip_updates = data.trip_updates]]
    /\ UNCHANGED <<s3, table>>

\* The stats of a new validator after both of its calls
StatsOf(vehicles, trip_updates, cv, ct) ==
    [vehicles_processed |-> Len(vehicles), vehicles_valid |-> Len(cv.valid),
     vehicles_invalid |-> Len(vehicles) - Len(cv.valid),
     vehicles_duplicate |-> cv.dedup.dup,
     trip_updates_processed |-> Len(trip_updates),
     trip_updates_valid |-> Len(ct.valid),
     trip_updates_invalid |-> Len(trip_updates) - Len(ct.valid),
     trip_updates_duplicate |-> ct.dedup.dup]

\* Step 2 with one validator kept between invocations: the keys of the records
\* the other invocations returned are still in its caches
ValidateWithKeptValidator(i) ==
    /\ inv[i].pc = "validate"
    /\ LET others == { j \in DOMAIN inv : j # i }
           kept_vehicles ==
               UNION { { VehicleKey(inv[j].clean_vehicles[n]) :
                           n \in DOMAIN inv[j].clean_vehicles } : j \in others }
           kept_trip_updates ==
               UNION { { TripUpdateKey(inv[j].clean_trip_updates[n]) :
                           n \in DOMAIN inv[j].clean_trip_updates } : j \in others }
           cv == CleanVehicles(inv[i].vehicles, kept_vehicles)
           ct == CleanTripUpdates(inv[i].trip_updates, kept_trip_updates)
       IN  inv' = [inv EXCEPT ![i] =
              [Passed(@, "validate") EXCEPT
                  !.clean_vehicles = cv.dedup.unique,
                  !.clean_trip_updates = ct.dedup.unique,
                  !.stats = StatsOf(inv[i].vehicles, inv[i].trip_updates, cv, ct)]]
    /\ UNCHANGED <<s3, table, clock>>

\* Step 2: a new DataQualityValidator cleans both lists
Validate(i) ==
    /\ inv[i].pc = "validate"
    /\ LET cv == CleanVehicles(inv[i].vehicles, {})
           ct == CleanTripUpdates(inv[i].trip_updates, {})
       IN  inv' = [inv EXCEPT ![i] =
              [Passed(@, "validate") EXCEPT
                  !.clean_vehicles = cv.dedup.unique,
                  !.clean_trip_updates = ct.dedup.unique,
                  !.stats = StatsOf(inv[i].vehicles, inv[i].trip_updates, cv, ct)]]
    /\ UNCHANGED <<s3, table, clock>>

\* Step 3, first half: timestamp = datetime.now(), then upload_vehicles
ArchiveVehicles(i, outcome) ==
    /\ inv[i].pc = "archive_vehicles"
    /\ \E timestamp \in HandlerClockReadings :
          /\ ReadClock(timestamp)
          /\ LET r == upload_json(inv[i].clean_vehicles, Chars_vehicles, timestamp,
                                  outcome, s3)
                 failed == IF r.put /\ ~r.wrote THEN {"vehicles"} ELSE {}
             IN  /\ s3' = r.bucket
                 /\ inv' = [inv EXCEPT ![i] =
                       IF r.raised
                       THEN [Caught(@, "archive_vehicles", "put_object") EXCEPT
                                !.timestamp = timestamp, !.put_failed = @ \cup failed]
                       ELSE [Passed(@, "archive_vehicles") EXCEPT
                                !.timestamp = timestamp, !.put_failed = @ \cup failed,
                                !.s3_keys.vehicles = r.key]]
    /\ UNCHANGED table

\* Step 3, second half: upload_trip_updates with the same timestamp
ArchiveTripUpdates(i, outcome) ==
    /\ inv[i].pc = "archive_trip_updates"
    /\ clock' = clock
    /\ LET r == upload_json(inv[i].clean_trip_updates, Chars_trip_updates,
                            inv[i].timestamp, outcome, s3)
           failed == IF r.put /\ ~r.wrote THEN {"trip_updates"} ELSE {}
       IN  /\ s3' = r.bucket
           /\ inv' = [inv EXCEPT ![i] =
                 IF r.raised
                 THEN [Caught(@, "archive_trip_updates", "put_object") EXCEPT
                          !.put_failed = @ \cup failed]
                 ELSE [Passed(@, "archive_trip_updates") EXCEPT
                          !.put_failed = @ \cup failed,
                          !.s3_keys.trip_updates = r.key]]
    /\ UNCHANGED table

\* Step 4, first half: batch_write_vehicles(clean_vehicles).  The reading of
\* datetime.now() inside an item is the default of a key every cleaned record
\* has, so that the last reading stands for it.
StoreVehicles(i, rejected) ==
    /\ inv[i].pc = "store_vehicles"
    /\ clock' = clock
    /\ LET r == batch_write_vehicles(inv[i].clean_vehicles, table, rejected, clock)
       IN  /\ table' = r.table
           /\ inv' = [inv EXCEPT ![i] =
                 IF r.raised THEN Caught(@, "store_vehicles", "batch_write_item")
                 ELSE [Passed(@, "store_vehicles") EXCEPT
                          !.vehicles_written = r.success_count]]
    /\ UNCHANGED s3

\* Step 4, second half: batch_write_trip_updates(clean_trip_updates)
StoreTripUpdates(i, rejected) ==
    /\ inv[i].pc = "store_trip_updates"
    /\ clock' = clock
    /\ LET r == batch_write_trip_updates(inv[i].clean_trip_updates, table, rejected,
                                         clock)
       IN  /\ table' = r.table
           /\ inv' = [inv EXCEPT ![i] =
                 IF r.raised THEN Caught(@, "store_trip_updates", "batch_write_item")
                 ELSE [Passed(@, "store_trip_updates") EXCEPT
                          !.trip_updates_written = r.success_count]]
    /\ UNCHANGED s3

\* The dict that json.dumps writes into the body of the success report
\* A report that counts the cleaned records as the parsed ones
SuccessBodyCountingCleaned(locals) ==
    [timestamp |-> IsoFormat(locals.timestamp),
     parsed |-> [vehicles |-> Len(locals.clean_vehicles),
                 trip_updates |-> Len(locals.clean_trip_updates)],
     cleaned |-> [vehicles |-> Len(locals.clean_vehicles),
                  trip_updates |-> Len(locals.clean_trip_updates)],
     validation_stats |-> locals.stats,
     s3_keys |-> locals.s3_keys,
     dynamodb_written |-> [vehicles |-> locals.vehicles_written,
                           trip_updates |-> locals.trip_updates_written]]

SuccessBody(locals) ==
    [timestamp |-> IsoFormat(locals.timestamp),
     parsed |-> [vehicles |-> Len(locals.vehicles),
                 trip_updates |-> Len(locals.trip_updates)],
     cleaned |-> [vehicles |-> Len(locals.clean_vehicles),
                  trip_updates |-> Len(locals.clean_trip_updates)],
     validation_stats |-> locals.stats,
     s3_keys |-> locals.s3_keys,
     dynamodb_written |-> [vehicles |-> locals.vehicles_written,
                           trip_updates |-> locals.trip_updates_written]]

\* The response is prepared and returned
Report(i) ==
    /\ inv[i].pc = "report"
    /\ inv' = [inv EXCEPT ![i] =
          [Passed(@, "report") EXCEPT
              !.response = [statusCode |-> 200, body |-> SuccessBody(inv[i])]]]
    /\ UNCHANGED <<s3, table, clock>>

\* A vehicle entity with everything set
FullVehicleEntity ==
    VehicleEntity([NoVehiclePosition EXCEPT
        !.vehicle = VehicleDescriptor(TRUE, Str(CharA)),
        !.trip = TripDescriptor(TRUE, Str(CharB), Str(<<"7">>)),
        !.position = Position(TRUE, Num(180), Num(12)),
        !.timestamp = Num(3661), !.current_stop_sequence = Num(4),
        !.current_status = Num(2), !.congestion_level = Num(1)])

\* The same vehicle without a timestamp of its own
UntimedVehicleEntity ==
    VehicleEntity([FullVehicleEntity.vehicle EXCEPT !.timestamp = Absent])

FullStopTimeUpdate ==
    [stop_id |-> Str(CharC), stop_sequence |-> Num(1),
     arrival |-> StopTimeEvent(TRUE, Num(60), Num(3661)),
     departure |-> StopTimeEvent(TRUE, Num(0), Num(0)),
     schedule_relationship |-> Num(0)]

FullTripUpdateEntity(stops) ==
    TripUpdateEntity(TripDescriptor(TRUE, Str(CharB), Str(<<"7">>)),
                     VehicleDescriptor(TRUE, Str(CharA)), stops)

Served(header_timestamp, entities) ==
    [outcome |-> "ok", feed |-> [header_timestamp |-> header_timestamp,
                                 entity |-> entities]]

Unavailable(outcome) == [outcome |-> outcome, feed |-> NoFeed]

\* A vehicle that is on no trip: the entity has no trip descriptor
OffTripVehicleEntity ==
    VehicleEntity([FullVehicleEntity.vehicle EXCEPT
                      !.trip = TripDescriptor(FALSE, Absent, Absent)])

\* What the vehicle positions URL serves at a schedule tick: nothing; one
\* vehicle; a vehicle without a timestamp of its own; a vehicle and an entity
\* the validator rejects; only an entity the validator rejects; a vehicle on
\* no trip
TickVehicleFeeds ==
    { Unavailable("network_error"),
      Served(Num(60), <<FullVehicleEntity>>),
      Served(Num(60), <<UntimedVehicleEntity>>),
      Served(Absent, <<FullVehicleEntity, VehicleEntity(NoVehiclePosition)>>),
      Served(Num(60), <<VehicleEntity(NoVehiclePosition)>>),
      Served(Num(60), <<OffTripVehicleEntity>>) }

\* What the trip updates URL serves at a schedule tick: nothing; a trip with
\* a stop and a stop without stop_id; a trip in a feed without header
\* timestamp; a trip without trip descriptor, which the validator rejects; a
\* trip with three stops
TickTripUpdateFeeds ==
    { Unavailable("decode_error"),
      Served(Num(60), <<FullTripUpdateEntity(
                           <<FullStopTimeUpdate,
                             [FullStopTimeUpdate EXCEPT !.stop_id = Absent]>>)>>),
      Served(Absent, <<FullTripUpdateEntity(<<FullStopTimeUpdate>>)>>),
      Served(Num(60), <<TripUpdateEntity(TripDescriptor(FALSE, Absent, Absent),
                                         VehicleDescriptor(FALSE, Absent),
                                         <<FullStopTimeUpdate>>)>>),
      Served(Num(60), <<FullTripUpdateEntity(
                           <<FullStopTimeUpdate,
                             [FullStopTimeUpdate EXCEPT !.stop_id = Str(CharA)],
                             [FullStopTimeUpdate EXCEPT !.stop_id = Str(CharB)]>>)>>) }

HandlerIdle == inv = [i \in Invocations |-> Invoked] /\ clock = FromTimestamp(0)

-----------------------------------------------------------------------------
(* The dashboard's loader: load_vehicle_positions and load_trip_updates *)

\* `len(items) < 5000`
scan_cap == 5000

RecordTypes == {"vehicle_position", "trip_update"}

\* What Table.scan returns for a start key: a page with the number of its
\* items that pass the filter, and a LastEvaluatedKey unless the page is the
\* last; or the exception it raises
ScanResults(start) ==
    [raised : {FALSE}, Items : {0, 1, MaxPageItems},
     LastEvaluatedKey : {Absent, Num(start + 1)}]
    \cup {[raised |-> TRUE, Items |-> 0, LastEvaluatedKey |-> Absent]}

NoScan == [raised |-> FALSE, Items |-> 0, LastEvaluatedKey |-> Absent]

\* The loader before a load_* call: `items`, `response`, and the
\* ExclusiveStartKey of every scan call made
LoaderIdle ==
    loader = [pc |-> "idle", record_type |-> "none", items |-> 0,
              response |-> NoScan, starts |-> <<>>]

\* `items = []`, the first scan and `items.extend`
FirstScan(record_type, response) ==
    /\ loader.pc = "idle"
    /\ response \in ScanResults(0)
    /\ loader' = IF response.raised
                 THEN [loader EXCEPT !.pc = "mock", !.record_type = record_type,
                                     !.starts = <<Absent>>]
                 ELSE [pc |-> "paging", record_type |-> record_type,
                       items |-> response.Items, response |-> response,
                       starts |-> <<Absent>>]

\* `'LastEvaluatedKey' in response and len(items) < 5000`
MayScan ==
    /\ HasField(loader.response.LastEvaluatedKey)
    /\ loader.items < scan_cap

\* One iteration of the loop: scan from the LastEvaluatedKey, `items.extend`
NextScan(response) ==
    /\ loader.pc = "paging"
    /\ MayScan
    /\ Len(loader.starts) < MaxPages
    /\ response \in ScanResults(loader.response.LastEvaluatedKey.v)
    /\ loader' = IF response.raised
                 THEN [loader EXCEPT !.pc = "mock",
                          !.starts = Append(@, loader.response.LastEvaluatedKey)]
                 ELSE [loader EXCEPT
                          !.items = @ + response.Items, !.response = response,
                          !.starts = Append(@, loader.response.LastEvaluatedKey)]

\* The loop is left: the items are returned as a frame, or the mock data are
\* when there is no item
LeaveScan ==
    /\ loader.pc = "paging"
    /\ ~MayScan
    /\ loader' = [loader EXCEPT !.pc = IF loader.items > 0 THEN "loaded" ELSE "mock"]

-----------------------------------------------------------------------------
(* The specifications *)

NoNet == [vehicles |-> [outcome |-> "network_error", feed |-> NoFeed],
          trip_updates |-> [outcome |-> "network_error", feed |-> NoFeed]]

\* No parser is running
ParserIdle == net = NoNet /\ pcall = NoCall

\* An empty bucket
ArchiveInit == s3 = EmptyBucket /\ archived = {} /\ ucall = NoUpload

\* One validator fed any record lists in any order, with resets in between
GateNext ==
    /\ UNCHANGED <<parserVars, archiveVars, storeVars, handlerVars, loaderVars>>
    /\ \/ \E records \in ListsOf(VehicleUniverse, MaxRecords - fed) :
             validate_and_clean_vehicles(records)
       \/ \E records \in ListsOf(TripUpdateUniverse, MaxRecords - fed) :
             validate_and_clean_trip_updates(records)
       \/ reset_stats
       \/ reset_dedup_cache

\* A fresh validator, no parser call made, an empty bucket
PipelineInit ==
    GateInit /\ ParserIdle /\ ArchiveInit /\ StoreInit /\ HandlerIdle /\ LoaderIdle

GateSpec == PipelineInit /\ [][GateNext]_vars

-----------------------------------------------------------------------------
(* Single validations: a caller holds one record and validates it *)

ValidationInit ==
    /\ seen_vehicles = {}
    /\ seen_trip_updates = {}
    /\ stats = ZeroStats
    /\ accepted = [vehicles |-> EmptyBag, trip_updates |-> EmptyBag]
    /\ op = NoOp
    /\ fed = 0
    /\ probe \in [kind : {"vehicle"}, record : VehicleProbes]
                    \cup [kind : {"trip_update"}, record : TripUpdateProbes]
    /\ ParserIdle
    /\ ArchiveInit
    /\ StoreInit
    /\ HandlerIdle
    /\ LoaderIdle

CallValidateVehiclePosition ==
    /\ probe.kind = "vehicle"
    /\ op' = [NoOp EXCEPT !.name = "validate_vehicle_position",
                          !.input = <<probe.record>>,
                          !.result = validate_vehicle_position(probe.record)]
    /\ UNCHANGED <<seen_vehicles, seen_trip_updates, stats, accepted, fed, probe>>

CallValidateTripUpdate ==
    /\ probe.kind = "trip_update"
    /\ op' = [NoOp EXCEPT !.name = "validate_trip_update",
                          !.input = <<probe.record>>,
                          !.result = validate_trip_update(probe.record)]
    /\ UNCHANGED <<seen_vehicles, seen_trip_updates, stats, accepted, fed, probe>>

ValidationNext ==
    /\ UNCHANGED <<parserVars, archiveVars, storeVars, handlerVars, loaderVars>>
    /\ \/ CallValidateVehiclePosition
       \/ CallValidateTripUpdate
       \/ probe.kind = "vehicle" /\ validate_and_clean_vehicles(<<probe.record>>)
       \/ probe.kind = "trip_update" /\ validate_and_clean_trip_updates(<<probe.record>>)

ValidationSpec == ValidationInit /\ [][ValidationNext]_vars

\* The two URLs serve any two responses of at most MaxWire together
ParserInit ==
    /\ GateInit
    /\ ArchiveInit
    /\ StoreInit
    /\ HandlerIdle
    /\ LoaderIdle
    /\ pcall = NoCall
    /\ net \in UNION { [vehicles : {v}, trip_updates : Responses("trip_updates", MaxWire - ResponseWeight(v))]
                        : v \in Responses("vehicles", MaxWire) }

CallParseVehiclePositions(now) ==
    LET r == parse_vehicle_positions(net.vehicles, now)
    IN  /\ pcall' = [NoCall EXCEPT !.name = "parse_vehicle_positions", !.now = now,
                                   !.raised = r.raised, !.vehicles = r.records,
                                   !.fetched = <<GTFS_RT_VEHICLE_POSITIONS_URL>>]
        /\ UNCHANGED net

CallParseTripUpdates(now) ==
    LET r == parse_trip_updates(net.trip_updates, now)
    IN  /\ pcall' = [NoCall EXCEPT !.name = "parse_trip_updates", !.now = now,
                                   !.raised = r.raised, !.trip_updates = r.records,
                                   !.fetched = <<GTFS_RT_TRIP_UPDATES_URL>>]
        /\ UNCHANGED net

CallParseAll(now) ==
    LET r == parse_all(net, now)
    IN  /\ pcall' = [name |-> "parse_all", now |-> now, raised |-> r.raised,
                     vehicles |-> r.vehicles, trip_updates |-> r.trip_updates,
                     fetched |-> r.fetched]
        /\ UNCHANGED net

\* One parser call on what the URLs serve: the parser keeps no state
ParserNext ==
    /\ pcall.name = "none"
    /\ UNCHANGED <<gateVars, archiveVars, storeVars, handlerVars, loaderVars>>
    /\ \E now \in ClockReadings :
          \/ CallParseVehiclePositions(now)
          \/ CallParseTripUpdates(now)
          \/ CallParseAll(now)

ParserSpec == ParserInit /\ [][ParserNext]_vars

\* One bucket written by any upload_json calls
ArchiveNext ==
    /\ UNCHANGED <<gateVars, parserVars, storeVars, handlerVars, loaderVars>>
    /\ \E data \in UploadData, data_type \in DataTypes,
          timestamp \in UploadTimestamps, outcome \in PutOutcomes :
          CallUploadJson(data, data_type, timestamp, outcome)

ArchiveSpec == PipelineInit /\ [][ArchiveNext]_vars

\* One batch write on an empty table; DynamoDB rejects no item or one
StoreNext ==
    /\ dcall.name = "none"
    /\ UNCHANGED <<gateVars, parserVars, archiveVars, handlerVars, loaderVars>>
    /\ \E kind \in {"vehicles", "trip_updates"}, n \in StoreSizes, now \in ClockReadings :
          \E rejected \in RejectedSets(n) :
             CallBatchWrite(kind, StoreRecords(kind, n), rejected, now)

StoreSpec == PipelineInit /\ [][StoreNext]_vars

\* The feeds of one schedule tick, and the handler invoked
HandlerInit ==
    /\ GateInit
    /\ ArchiveInit
    /\ StoreInit
    /\ HandlerIdle
    /\ LoaderIdle
    /\ pcall = NoCall
    /\ net \in [vehicles : TickVehicleFeeds, trip_updates : TickTripUpdateFeeds]

\* One invocation, in which put_object and batch_write_item may fail
HandlerNext ==
    /\ UNCHANGED <<gateVars, net, pcall, archived, ucall, dcall, loaderVars>>
    /\ \/ Parse(1)
       \/ Validate(1)
       \/ \E outcome \in PutOutcomes : ArchiveVehicles(1, outcome)
       \/ \E outcome \in PutOutcomes : ArchiveTripUpdates(1, outcome)
       \/ \E rejected \in RejectedSets(Len(inv[1].clean_vehicles)) :
             StoreVehicles(1, rejected)
       \/ \E rejected \in RejectedSets(Len(inv[1].clean_trip_updates)) :
             StoreTripUpdates(1, rejected)
       \/ Report(1)

HandlerSpec == HandlerInit /\ [][HandlerNext]_vars

\* Two invocations of one schedule tick, interleaved at their steps, with S3
\* and DynamoDB accepting every write
RetryNext ==
    /\ UNCHANGED <<gateVars, net, pcall, archived, ucall, dcall, loaderVars>>
    /\ \E i \in Invocations :
          \/ Parse(i)
          \/ Validate(i)
          \/ ArchiveVehicles(i, "ok")
          \/ ArchiveTripUpdates(i, "ok")
          \/ StoreVehicles(i, {})
          \/ StoreTripUpdates(i, {})
          \/ Report(i)

RetrySpec == HandlerInit /\ [][RetryNext]_vars

\* One batch write of a cleaned list whose identifiers may hold a "#"
KeyedStoreNext ==
    /\ dcall.name = "none"
    /\ UNCHANGED <<gateVars, parserVars, archiveVars, handlerVars, loaderVars>>
    /\ \E kind \in {"vehicles", "trip_updates"}, n \in StoreSizes, now \in ClockReadings :
          \E records \in CleanedLists(kind, n) :
             CallBatchWrite(kind, records, {}, now)

KeyedStoreSpec == PipelineInit /\ [][KeyedStoreNext]_vars

\* One load_* call of the dashboard
LoaderNext ==
    /\ UNCHANGED <<gateVars, parserVars, archiveVars, storeVars, handlerVars>>
    /\ \/ \E record_type \in RecordTypes, response \in ScanResults(0) :
             FirstScan(record_type, response)
       \/ \E response \in ScanResults(loader.response.LastEvaluatedKey.v) :
             NextScan(response)
       \/ LeaveScan

LoaderSpec == PipelineInit /\ [][LoaderNext]_vars

-----------------------------------------------------------------------------
(* What the claims are stated with *)

Present(x) == x.k \notin {"absent", "null"}

Within(x, lo, hi) == x.k = "num" /\ lo <= x.v /\ x.v <= hi

Range(s) == {s[i] : i \in DOMAIN s}

IsVehicleCall(o) == o.name = "validate_and_clean_vehicles"

IsTripUpdateCall(o) == o.name = "validate_and_clean_trip_updates"

\* The natural keys, as tuples of the fields
VehicleNaturalKey(r) == <<Get(r, "vehicle_id"), Get(r, "timestamp")>>

TripUpdateNaturalKey(r) ==
    <<Get(r, "trip_id"), Get(r, "stop_id"), Get(r, "feed_timestamp")>>

ValidVehicleIndexes(L) == {i \in DOMAIN L : validate_vehicle_position(L[i])}

ValidTripUpdateIndexes(L) == {i \in DOMAIN L : validate_trip_update(L[i])}

-----------------------------------------------------------------------------
(* C1: every record of every list validate_and_clean_vehicles returns has a
   non-null vehicle_id, latitude, longitude and timestamp, a latitude in
   [-90, 90], a longitude in [-180, 180] and a speed that is null or >= 0.
   The code refutes it: a not-a-number latitude, longitude or speed passes
   every comparison of validate_vehicle_position. *)
C1_CleanedVehiclesWellFormed ==
    IsVehicleCall(op) =>
        \A i \in DOMAIN op.output :
            LET r == op.output[i]
            IN  /\ Present(r.vehicle_id) /\ Present(r.timestamp)
                /\ Present(r.latitude) /\ Present(r.longitude)
                /\ Within(r.latitude, -90, 90)
                /\ Within(r.longitude, -180, 180)
                /\ (~Present(r.speed) \/ (r.speed.k = "num" /\ r.speed.v >= 0))

(* C2: feeding a validator the list it was just fed, with no cache reset in
   between, returns the empty list and raises the kind's duplicate counter by
   the number of valid records of the list. *)
C2_RefeedYieldsNothing ==
    op.repeat =>
        /\ op.output = <<>>
        /\ IsVehicleCall(op) =>
              stats.vehicles_duplicate - op.dupBefore
                  = Cardinality(ValidVehicleIndexes(op.input))
        /\ IsTripUpdateCall(op) =>
              stats.trip_updates_duplicate - op.dupBefore
                  = Cardinality(ValidTripUpdateIndexes(op.input))

\* A list with a valid and an invalid record has been fed twice in a row
C2_Witness ==
    /\ op.repeat
    /\ IsVehicleCall(op)
    /\ ValidVehicleIndexes(op.input) # {}
    /\ ValidVehicleIndexes(op.input) # DOMAIN op.input
    /\ stats.vehicles_duplicate > op.dupBefore

(* C3: among the records returned since the last cache reset no two have the
   same natural key, not even two that differ in their other fields, and no
   record is returned twice; every valid record a call did not return is
   counted as a duplicate. *)
C3_FirstSeenWins ==
    /\ \A r1, r2 \in BagToSet(accepted.vehicles) :
          VehicleNaturalKey(r1) = VehicleNaturalKey(r2)
              => r1 = r2 /\ CopiesIn(r1, accepted.vehicles) = 1
    /\ \A r1, r2 \in BagToSet(accepted.trip_updates) :
          TripUpdateNaturalKey(r1) = TripUpdateNaturalKey(r2)
              => r1 = r2 /\ CopiesIn(r1, accepted.trip_updates) = 1
    /\ IsVehicleCall(op) =>
          stats.vehicles_duplicate - op.dupBefore
              = Cardinality(ValidVehicleIndexes(op.input)) - Len(op.output)
    /\ IsTripUpdateCall(op) =>
          stats.trip_updates_duplicate - op.dupBefore
              = Cardinality(ValidTripUpdateIndexes(op.input)) - Len(op.output)

\* A valid record was dropped whose key is that of a record returned before it
\* and whose other fields differ from that record's
C3_Witness ==
    /\ IsVehicleCall(op)
    /\ \E i \in ValidVehicleIndexes(op.input) :
          /\ op.input[i] \notin BagToSet(accepted.vehicles)
          /\ \E r \in BagToSet(accepted.vehicles) :
                /\ VehicleNaturalKey(r) = VehicleNaturalKey(op.input[i])
                /\ r.speed # op.input[i].speed
    /\ stats.vehicles_duplicate > op.dupBefore

(* C4: a call adds to the cache the keys of its valid records and no other
   key, counts as duplicates only valid records it did not return, and returns
   every valid record whose key was not in the cache and is not the key of a
   valid record before it in the list: a record that fails validation leaves
   the cache and the duplicate counter alone. *)
C4_VehicleStep ==
    IsVehicleCall(op') =>
        LET L == op'.input
            valid == ValidVehicleIndexes(L)
        IN  /\ seen_vehicles' = seen_vehicles \cup {VehicleKey(L[i]) : i \in valid}
            /\ stats'.vehicles_duplicate - stats.vehicles_duplicate
                  = Cardinality(valid) - Len(op'.output)
            /\ \A i \in valid :
                  (/\ VehicleKey(L[i]) \notin seen_vehicles
                   /\ \A j \in valid : j < i => VehicleKey(L[j]) # VehicleKey(L[i]))
                      => L[i] \in Range(op'.output)

C4_TripUpdateStep ==
    IsTripUpdateCall(op') =>
        LET L == op'.input
            valid == ValidTripUpdateIndexes(L)
        IN  /\ seen_trip_updates'
                  = seen_trip_updates \cup {TripUpdateKey(L[i]) : i \in valid}
            /\ stats'.trip_updates_duplicate - stats.trip_updates_duplicate
                  = Cardinality(valid) - Len(op'.output)
            /\ \A i \in valid :
                  (/\ TripUpdateKey(L[i]) \notin seen_trip_updates
                   /\ \A j \in valid : j < i => TripUpdateKey(L[j]) # TripUpdateKey(L[i]))
                      => L[i] \in Range(op'.output)

C4_ValidationPrecedesDedup == [][C4_VehicleStep /\ C4_TripUpdateStep]_vars

\* A list held an invalid record and, after it, a valid record with the same
\* vehicle_id and timestamp: the valid one was returned
C4_Witness ==
    /\ IsVehicleCall(op)
    /\ \E i, j \in DOMAIN op.input :
          /\ i < j
          /\ ~validate_vehicle_position(op.input[i])
          /\ validate_vehicle_position(op.input[j])
          /\ VehicleNaturalKey(op.input[i]) = VehicleNaturalKey(op.input[j])
          /\ op.input[j] \in Range(op.output)
          /\ stats.vehicles_duplicate = 0

(* C5: validate_trip_update accepts a record exactly when its trip_id, stop_id
   and feed_timestamp are present and not null, whatever its other fields. *)
C5_TripUpdateAcceptedIffKeyed ==
    op.name = "validate_trip_update" =>
        LET r == op.input[1]
        IN  op.result <=>
                (Present(r.trip_id) /\ Present(r.stop_id) /\ Present(r.feed_timestamp))

\* A record with no delays, no route and no vehicle was accepted
C5_Witness ==
    /\ op.name = "validate_trip_update"
    /\ op.result
    /\ ~Present(op.input[1].arrival_delay)
    /\ ~Present(op.input[1].departure_delay)
    /\ ~Present(op.input[1].route_id)
    /\ ~Present(op.input[1].vehicle_id)


-----------------------------------------------------------------------------
(* The parser's calls as the claims read them *)

IsParse(names) == pcall.name \in names

RECURSIVE StopsBefore(_, _)
\* The stop time updates of the trip update entities before entity k
StopsBefore(entities, k) ==
    IF k <= 1 THEN 0
    ELSE StopsBefore(entities, k - 1)
         + (IF entities[k - 1].trip_update.present
            THEN Len(entities[k - 1].trip_update.stop_time_update) ELSE 0)

RECURSIVE VehiclesBefore(_, _)
\* The vehicle entities before entity k
VehiclesBefore(entities, k) ==
    IF k <= 1 THEN 0
    ELSE VehiclesBefore(entities, k - 1)
         + (IF entities[k - 1].vehicle.present THEN 1 ELSE 0)

\* A trip update call returned the records of a decoded trip updates feed
ParsedTripUpdates ==
    /\ IsParse({"parse_trip_updates", "parse_all"})
    /\ net.trip_updates.outcome = "ok"
    /\ ~pcall.raised

\* A vehicle call returned the records of a decoded vehicle positions feed
ParsedVehicles ==
    /\ IsParse({"parse_vehicle_positions", "parse_all"})
    /\ net.vehicles.outcome = "ok"
    /\ ~pcall.raised

\* An optional scalar inside an optional sub-message is on the wire
OnWire(message, field) == message.present /\ HasField(field)

(* C6: a trip update entity with N stop time updates yields exactly N records,
   in the order of its stop time updates, all with one trip_id, route_id and
   vehicle_id, which are the parent's where the parent sets them; the list
   returned is as long as the sum of N over the trip update entities. *)
C6_FanOut ==
    ParsedTripUpdates =>
        LET entities == net.trip_updates.feed.entity
            out == pcall.trip_updates
        IN  /\ Len(out) = StopsBefore(entities, Len(entities) + 1)
            /\ \A k \in DOMAIN entities :
                  entities[k].trip_update.present =>
                     LET tu == entities[k].trip_update
                         o == StopsBefore(entities, k)
                     IN  \A j \in 1..Len(tu.stop_time_update) :
                            /\ o + j \in DOMAIN out
                            /\ out[o + j].trip_id = out[o + 1].trip_id
                            /\ out[o + j].route_id = out[o + 1].route_id
                            /\ out[o + j].vehicle_id = out[o + 1].vehicle_id
                            /\ OnWire(tu.trip, tu.trip.trip_id)
                                  => out[o + j].trip_id = tu.trip.trip_id
                            /\ OnWire(tu.trip, tu.trip.route_id)
                                  => out[o + j].route_id = tu.trip.route_id
                            /\ OnWire(tu.vehicle, tu.vehicle.id)
                                  => out[o + j].vehicle_id = tu.vehicle.id
                            /\ HasField(tu.stop_time_update[j].stop_id)
                                  => out[o + j].stop_id = tu.stop_time_update[j].stop_id

\* A trip update entity with two stop time updates, with ids, was fanned out
C6_Witness ==
    /\ ParsedTripUpdates
    /\ Len(pcall.trip_updates) >= 2
    /\ \E k \in DOMAIN net.trip_updates.feed.entity :
          LET tu == net.trip_updates.feed.entity[k].trip_update
          IN  /\ tu.present
              /\ Len(tu.stop_time_update) = 2
              /\ OnWire(tu.trip, tu.trip.trip_id)

(* C7: in a parsed record every optional sub-field that is absent on the wire,
   the ids inside a present trip or vehicle sub-message and the bearing and
   speed inside a present position included, is null. *)
C7_AbsentMapsToNull ==
    /\ ParsedVehicles =>
          LET entities == net.vehicles.feed.entity
          IN  \A k \in DOMAIN entities :
                 entities[k].vehicle.present =>
                    LET vp == entities[k].vehicle
                        rec == pcall.vehicles[VehiclesBefore(entities, k) + 1]
                    IN  /\ ~OnWire(vp.vehicle, vp.vehicle.id) => rec.vehicle_id = Null
                        /\ ~OnWire(vp.trip, vp.trip.trip_id) => rec.trip_id = Null
                        /\ ~OnWire(vp.trip, vp.trip.route_id) => rec.route_id = Null
                        /\ ~OnWire(vp.position, vp.position.bearing) => rec.bearing = Null
                        /\ ~OnWire(vp.position, vp.position.speed) => rec.speed = Null
                        /\ ~vp.position.present
                              => rec.latitude = Null /\ rec.longitude = Null
                        /\ ~HasField(vp.current_stop_sequence)
                              => rec.current_stop_sequence = Null
                        /\ ~HasField(vp.current_status) => rec.current_status = Null
                        /\ ~HasField(vp.congestion_level) => rec.congestion_level = Null
    /\ ParsedTripUpdates =>
          LET entities == net.trip_updates.feed.entity
          IN  \A k \in DOMAIN entities :
                 entities[k].trip_update.present =>
                    LET tu == entities[k].trip_update
                        o == StopsBefore(entities, k)
                    IN  \A j \in 1..Len(tu.stop_time_update) :
                           LET stu == tu.stop_time_update[j]
                               rec == pcall.trip_updates[o + j]
                           IN  /\ ~OnWire(tu.trip, tu.trip.trip_id) => rec.trip_id = Null
                               /\ ~OnWire(tu.trip, tu.trip.route_id) => rec.route_id = Null
                               /\ ~OnWire(tu.vehicle, tu.vehicle.id) => rec.vehicle_id = Null
                               /\ ~HasField(stu.stop_id) => rec.stop_id = Null
                               /\ ~HasField(stu.stop_sequence) => rec.stop_sequence = Null
                               /\ ~OnWire(stu.arrival, stu.arrival.delay)
                                     => rec.arrival_delay = Null
                               /\ ~OnWire(stu.arrival, stu.arrival.time)
                                     => rec.arrival_time = Null
                               /\ ~OnWire(stu.departure, stu.departure.delay)
                                     => rec.departure_delay = Null
                               /\ ~OnWire(stu.departure, stu.departure.time)
                                     => rec.departure_time = Null
                               /\ ~HasField(stu.schedule_relationship)
                                     => rec.schedule_relationship = Null

(* C8: the timestamp of a parsed vehicle record is the entity's own timestamp
   when the entity has one, else the feed header's timestamp when the header
   has one, else the time of processing. *)
C8_TimestampFallback ==
    ParsedVehicles =>
        LET feed == net.vehicles.feed
        IN  \A k \in DOMAIN feed.entity :
               feed.entity[k].vehicle.present =>
                  LET vp == feed.entity[k].vehicle
                      rec == pcall.vehicles[VehiclesBefore(feed.entity, k) + 1]
                  IN  rec.timestamp =
                         IF HasField(vp.timestamp)
                         THEN Str(IsoFormat(FromTimestamp(vp.timestamp.v)))
                         ELSE IF HasField(feed.header_timestamp)
                         THEN Str(IsoFormat(FromTimestamp(feed.header_timestamp.v)))
                         ELSE Str(IsoFormat(pcall.now))

(* C9: a feed whose fetch fails (network error, non-2xx response, undecodable
   bytes) parses to an empty list and no exception leaves the call; parse_all
   fetches both URLs whichever feed failed and returns the records of the
   feed that was served. *)
C9_FeedIsolation ==
    /\ IsParse({"parse_vehicle_positions", "parse_all"})
          /\ net.vehicles.outcome # "ok"
          => ~pcall.raised /\ pcall.vehicles = <<>>
    /\ IsParse({"parse_trip_updates", "parse_all"})
          /\ net.trip_updates.outcome # "ok"
          => ~pcall.raised /\ pcall.trip_updates = <<>>
    /\ IsParse({"parse_all"}) =>
          /\ ~pcall.raised
          /\ pcall.fetched = <<GTFS_RT_VEHICLE_POSITIONS_URL, GTFS_RT_TRIP_UPDATES_URL>>
          /\ net.vehicles.outcome = "ok" =>
                pcall.vehicles = VehicleRecordsFrom(net.vehicles.feed, 1, pcall.now)
          /\ net.trip_updates.outcome = "ok" =>
                pcall.trip_updates = TripRecordsFrom(net.trip_updates.feed, 1, pcall.now)

\* parse_all returned the trip updates of a served feed though the vehicle
\* positions feed was undecodable
C9_Witness ==
    /\ IsParse({"parse_all"})
    /\ net.vehicles.outcome = "decode_error"
    /\ net.trip_updates.outcome = "ok"
    /\ Len(pcall.trip_updates) >= 1
    /\ pcall.vehicles = <<>>
    /\ ~pcall.raised

-----------------------------------------------------------------------------
(* The bucket as the claims read it *)

\* The second a timestamp falls in
SecondOf(timestamp) == [timestamp EXCEPT !.microsecond = 0]

\* The (data_type, second) pairs of the calls that wrote an object
ArchivedPairs == { <<a.data_type, SecondOf(a.timestamp)>> : a \in archived }

(* C10: two writing upload_json calls have the same object key exactly when
   they have the same data_type and the same timestamp to the second, so the
   bucket holds exactly one object per (data_type, second) pair written, under
   transit/{data_type}/{YYYYMMDD}/{YYYYMMDD_HHMMSS}.json. *)
C10_OneObjectPerTypeAndSecond ==
    /\ \A a, b \in archived :
          a.key = b.key <=> /\ a.data_type = b.data_type
                            /\ SecondOf(a.timestamp) = SecondOf(b.timestamp)
    /\ DOMAIN s3 = { a.key : a \in archived }
    /\ Cardinality(DOMAIN s3) = Cardinality(ArchivedPairs)
    /\ \A a \in archived :
          /\ Len(a.key) = 8 + Len(a.data_type) + 1 + 8 + 1 + 15 + 5
          /\ SubSeq(a.key, 1, 8) = Chars_transit
          /\ SubSeq(a.key, Len(a.key) - 4, Len(a.key)) = Chars_json

\* Two calls in one second wrote one object, and a call of the next second
\* wrote another
C10_Witness ==
    /\ Cardinality(DOMAIN s3) = 2
    /\ \E a, b, c \in archived :
          /\ a.timestamp # b.timestamp
          /\ a.key = b.key
          /\ c.data_type = a.data_type
          /\ c.timestamp.second # a.timestamp.second
          /\ c.timestamp.minute = a.timestamp.minute
          /\ c.key # a.key


(* C11: an upload_json call with an empty record list, of either data_type
   and at any timestamp, calls put_object not at all, leaves the bucket as it
   was, and returns None without raising. *)
C11_EmptyUploadStep ==
    ucall'.name = "upload_json" /\ ucall'.data = <<>> =>
        /\ ~ucall'.put
        /\ s3' = s3
        /\ archived' = archived
        /\ ucall'.key = Null
        /\ ~ucall'.raised

C11_EmptyUploadWritesNothing == [][C11_EmptyUploadStep]_vars

\* An empty list was uploaded to a bucket that holds an object
C11_Witness ==
    /\ ucall.name = "upload_json"
    /\ ucall.data = <<>>
    /\ ucall.key = Null
    /\ DOMAIN s3 # {}


-----------------------------------------------------------------------------
(* The batch writes as the claims read them *)

IsBatchWrite == dcall.name \in {"vehicles", "trip_updates"}

RECURSIVE Concat(_)
\* The lists of a list, joined in order
Concat(lists) == IF lists = <<>> THEN <<>> ELSE Head(lists) \o Concat(Tail(lists))

\* The i-th record handed to the last batch write is an item of the table
Stored(i) ==
    LET item == ItemOf(dcall.name, dcall.records[i], dcall.now)
    IN  ItemKey(item) \in DOMAIN table /\ table[ItemKey(item)] = item

StoredRecords == { i \in DOMAIN dcall.records : Stored(i) }

(* C12: a batch write of n records that returns has opened ceil(n/25) batch
   writers (3 for 57 records, none for 0), each for at most 25 records, and
   the batches in order are the input list cut in consecutive pieces; when no
   item is rejected each batch goes out in one request of at most 25 items. *)
C12_BatchChunking ==
    IsBatchWrite /\ ~dcall.raised =>
        LET n == Len(dcall.records)
        IN  /\ Len(dcall.opened) = (n + 24) \div 25
            /\ n = 57 => Len(dcall.opened) = 3
            /\ n = 0 => Len(dcall.opened) = 0
            /\ \A c \in DOMAIN dcall.opened : Len(dcall.opened[c]) \in 1..25
            /\ Concat(dcall.opened) = dcall.records
            /\ dcall.rejected = {} =>
                  /\ Len(dcall.flushes) = Len(dcall.opened)
                  /\ \A c \in DOMAIN dcall.flushes :
                        Len(dcall.flushes[c].indexes) = Len(dcall.opened[c])

\* 57 records were written in three batches
C12_Witness ==
    /\ IsBatchWrite
    /\ ~dcall.raised
    /\ Len(dcall.records) = 57
    /\ Len(dcall.opened) = 3
    /\ Len(dcall.opened[3]) = 7
    /\ Cardinality(DOMAIN table) = 57

(* C13: when DynamoDB rejects one item of a batch write, every other item of
   the list is written, the call returns normally, and it returns the number
   of records less the rejected ones. *)
C13_ItemFailureIsolated ==
    IsBatchWrite =>
        /\ ~dcall.raised
        /\ \A i \in DOMAIN dcall.records : i \notin dcall.rejected => Stored(i)
        /\ dcall.success_count = Len(dcall.records) - Cardinality(dcall.rejected)

(* C14: the count a batch write returns is the number of records of its list
   that are items of the table when it returns. *)
C14_CountIsPersisted ==
    IsBatchWrite /\ ~dcall.raised =>
        dcall.success_count = Cardinality(StoredRecords)


-----------------------------------------------------------------------------
(* The handler as the claims read it *)

IsPrefix(s, t) == Len(s) <= Len(t) /\ s = SubSeq(t, 1, Len(s))

\* What an invocation did before its report, whatever it skipped
FixedOrder ==
    <<"parse", "validate", "archive_vehicles", "archive_trip_updates",
      "store_vehicles", "store_trip_updates", "report">>

\* The records the quality gate returns for what an invocation parsed
GateVehicles(locals) == CleanVehicles(locals.vehicles, {}).dedup.unique

GateTripUpdates(locals) == CleanTripUpdates(locals.trip_updates, {}).dedup.unique

\* The objects and the items that a step wrote
WrittenObjects == { k \in DOMAIN s3' : k \notin DOMAIN s3 \/ s3'[k] # s3[k] }

WrittenItems == { k \in DOMAIN table' : k \notin DOMAIN table \/ table'[k] # table[k] }

Returned(i) == inv[i].pc = "returned"

Succeeded(i) == Returned(i) /\ inv[i].response.statusCode = 200

(* C15: an invocation does its steps in the order parse, validate, archive of
   both kinds, store of both kinds, report; a step writes an object only for
   an invocation that has validated, and then the list the quality gate
   returned; a step writes an item only for an invocation whose two archive
   calls have returned, and then the item of a record the gate returned. *)
C15_Step ==
    /\ \A i \in Invocations : IsPrefix(inv'[i].steps, FixedOrder)
    /\ WrittenObjects # {} =>
          \E i \in Invocations :
             /\ inv'[i] # inv[i]
             /\ IsPrefix(<<"parse", "validate">>, inv[i].steps)
             /\ \A k \in WrittenObjects :
                   s3'[k] \in {GateVehicles(inv[i]), GateTripUpdates(inv[i])}
    /\ WrittenItems # {} =>
          \E i \in Invocations :
             /\ inv'[i] # inv[i]
             /\ IsPrefix(<<"parse", "validate", "archive_vehicles",
                           "archive_trip_updates">>, inv[i].steps)
             /\ \A k \in WrittenItems :
                   table'[k].attributes \in
                      { convert_floats_to_decimal(r) :
                          r \in Range(GateVehicles(inv[i]))
                                  \cup Range(GateTripUpdates(inv[i])) }

C15_FixedStepOrder == [][C15_Step]_vars

\* An invocation whose gate rejected a record archived, stored and reported
C15_Witness ==
    /\ Succeeded(1)
    /\ inv[1].steps = FixedOrder
    /\ Len(inv[1].clean_vehicles) < Len(inv[1].vehicles)
    /\ DOMAIN s3 # {}
    /\ DOMAIN table # {}


(* C16: no exception leaves handler: an invocation that has ended has returned
   either the success report (status 200 with timestamp, parsed, cleaned,
   validation_stats, s3_keys and dynamodb_written) after all of its steps, or
   the failure report (status 500 with error and timestamp). *)
C16_FaultsAreReported ==
    \A i \in Invocations :
       /\ inv[i].pc \in Range(FixedOrder) \cup {"returned"}
       /\ Returned(i) =>
             \/ /\ inv[i].response.statusCode = 200
                /\ inv[i].steps = FixedOrder
                /\ DOMAIN inv[i].response.body =
                      {"timestamp", "parsed", "cleaned", "validation_stats",
                       "s3_keys", "dynamodb_written"}
                /\ inv[i].response.body.timestamp # <<>>
             \/ /\ inv[i].response.statusCode = 500
                /\ inv[i].steps # FixedOrder
                /\ DOMAIN inv[i].response.body = {"error", "timestamp"}
                /\ inv[i].response.body.timestamp # <<>>

\* A batch write raised after the uploads and the failure report was returned
C16_Witness ==
    /\ Returned(1)
    /\ inv[1].response.statusCode = 500
    /\ inv[1].response.body.error = "batch_write_item"
    /\ DOMAIN s3 # {}

(* C17: when the put_object of a kind fails, the upload raises nothing, so
   that the invocation does not end at an archive step, and the success
   report has a null location for that kind. *)
C17_ArchiveFailureContinues ==
    \A i \in Invocations :
       inv[i].put_failed # {} =>
          /\ ~(Returned(i) /\ inv[i].steps[Len(inv[i].steps)]
                                \in {"archive_vehicles", "archive_trip_updates"})
          /\ Succeeded(i) =>
                \A kind \in inv[i].put_failed :
                   inv[i].response.body.s3_keys[kind] = Null

\* The feeds of the tick give the quality gate nothing to return: they are
\* unavailable, or every record of them is rejected
EmptyTick ==
    \A now \in HandlerClockReadings :
       /\ SelectSeq(VehicleRecordsFrom(net.vehicles.feed, 1, now),
                    validate_vehicle_position) = <<>>
       /\ SelectSeq(TripRecordsFrom(net.trip_updates.feed, 1, now),
                    validate_trip_update) = <<>>

(* C18: when both feeds are unavailable or every record is rejected, the
   invocation runs all of its steps, writes no object and no item, and
   returns a success report with zero cleaned counts, null archive locations
   and zero store counts. *)
C18_EmptyBatchRunsThrough ==
    EmptyTick =>
        /\ s3 = EmptyBucket
        /\ table = EmptyTable
        /\ Returned(1) =>
              /\ inv[1].response.statusCode = 200
              /\ inv[1].steps = FixedOrder
              /\ inv[1].response.body.cleaned = [vehicles |-> 0, trip_updates |-> 0]
              /\ inv[1].response.body.s3_keys = [vehicles |-> Null, trip_updates |-> Null]
              /\ inv[1].response.body.dynamodb_written
                    = [vehicles |-> 0, trip_updates |-> 0]

\* The vehicle positions feed was unavailable, every trip update was rejected,
\* and the invocation reported success
C18_Witness ==
    /\ EmptyTick
    /\ net.vehicles.outcome # "ok"
    /\ Succeeded(1)
    /\ inv[1].response.body.parsed.trip_updates > 0
    /\ inv[1].response.body.cleaned.trip_updates = 0

\* The table a single successful invocation with these cleaned lists leaves
TableOf(locals) ==
    batch_write_trip_updates(locals.clean_trip_updates,
        batch_write_vehicles(locals.clean_vehicles, EmptyTable, {}, clock).table,
        {}, clock).table

(* C19: after two successful invocations on the feeds of one tick the bucket
   holds the objects of a single invocation: both wrote to the same keys. *)
C19_RetryArchivesOnce ==
    Succeeded(1) /\ Succeeded(2) =>
        /\ inv[1].s3_keys = inv[2].s3_keys
        /\ DOMAIN s3 = { inv[1].s3_keys[kind].v :
                           kind \in { k \in {"vehicles", "trip_updates"} :
                                        inv[1].s3_keys[k] # Null } }

(* C20: after two successful invocations on the feeds of one tick the table
   holds the items of a single invocation, with their contents, also for
   entities without a timestamp of their own. *)
C20_RetryStoresOnce ==
    Succeeded(1) /\ Succeeded(2) =>
        /\ table = TableOf(inv[1])
        /\ table = TableOf(inv[2])


-----------------------------------------------------------------------------
(* The validator over its lifetime *)

\* The valid records of a list that no valid record before them shares the
\* joined key with
FirstVehicles(L) ==
    { i \in ValidVehicleIndexes(L) :
        \A j \in ValidVehicleIndexes(L) : j < i => VehicleKey(L[j]) # VehicleKey(L[i]) }

FirstTripUpdates(L) ==
    { i \in ValidTripUpdateIndexes(L) :
        \A j \in ValidTripUpdateIndexes(L) :
           j < i => TripUpdateKey(L[j]) # TripUpdateKey(L[i]) }

(* C21: reset_dedup_cache empties both key sets and leaves every counter as it
   was; the call after it returns every valid record of its list that is the
   first of its key in the list, whatever had been seen before; no other call
   removes a key from either set. *)
C21_Step ==
    /\ op'.name = "reset_dedup_cache" =>
          /\ seen_vehicles' = {}
          /\ seen_trip_updates' = {}
          /\ stats' = stats
    /\ op'.name # "reset_dedup_cache" =>
          /\ seen_vehicles \subseteq seen_vehicles'
          /\ seen_trip_updates \subseteq seen_trip_updates'
    /\ op.name = "reset_dedup_cache" /\ IsVehicleCall(op') =>
          /\ \A i \in FirstVehicles(op'.input) : op'.input[i] \in Range(op'.output)
          /\ Len(op'.output) = Cardinality(FirstVehicles(op'.input))
    /\ op.name = "reset_dedup_cache" /\ IsTripUpdateCall(op') =>
          /\ \A i \in FirstTripUpdates(op'.input) : op'.input[i] \in Range(op'.output)
          /\ Len(op'.output) = Cardinality(FirstTripUpdates(op'.input))

C21_EvictionIsExplicit == [][C21_Step]_vars

\* Three valid vehicle records were returned and none was counted a duplicate:
\* the valid records fed have two keys, so that one key was returned, evicted
\* and returned again
C21_Witness ==
    /\ IsVehicleCall(op)
    /\ op.output # <<>>
    /\ stats.vehicles_valid = 3
    /\ stats.vehicles_duplicate = 0
    /\ Cardinality({ VehicleKey(r) : r \in { v \in VehicleUniverse :
                                               validate_vehicle_position(v) } }) = 2


\* The invocations that have run their validation step
Validated(i) == "validate" \in Range(inv[i].steps)

(* C22: the validation step of an invocation starts from empty key sets and
   zero counters: it returns every valid record of its own parsed lists that
   is the first of its key there, whatever another invocation has returned or
   stored, and its counters count its own parsed records only. *)
C22_FreshValidatorPerInvocation ==
    \A i \in Invocations : Validated(i) =>
        LET L == inv[i] IN
        /\ \A n \in FirstVehicles(L.vehicles) :
              L.vehicles[n] \in Range(L.clean_vehicles)
        /\ \A n \in FirstTripUpdates(L.trip_updates) :
              L.trip_updates[n] \in Range(L.clean_trip_updates)
        /\ L.stats.vehicles_processed = Len(L.vehicles)
        /\ L.stats.vehicles_valid = Cardinality(ValidVehicleIndexes(L.vehicles))
        /\ L.stats.vehicles_duplicate =
              L.stats.vehicles_valid - Cardinality(FirstVehicles(L.vehicles))
        /\ L.stats.trip_updates_processed = Len(L.trip_updates)
        /\ L.stats.trip_updates_valid =
              Cardinality(ValidTripUpdateIndexes(L.trip_updates))
        /\ L.stats.trip_updates_duplicate =
              L.stats.trip_updates_valid - Cardinality(FirstTripUpdates(L.trip_updates))

\* The first invocation has stored a vehicle record and a stop record, and the
\* second invocation has returned both from its own validation step afterwards
C22_Witness ==
    /\ Succeeded(1)
    /\ Validated(2)
    /\ inv[2].pc = "archive_vehicles"
    /\ \E r \in Range(inv[1].clean_vehicles) : r \in Range(inv[2].clean_vehicles)
    /\ \E r \in Range(inv[1].clean_trip_updates) :
          r \in Range(inv[2].clean_trip_updates)
    /\ inv[1].vehicles_written > 0
    /\ inv[2].stats.vehicles_duplicate = 0


\* The position entities and the stop time updates of the feeds of the tick;
\* a feed that was not served has none
WireVehicles ==
    IF net.vehicles.outcome = "ok"
    THEN VehiclesBefore(net.vehicles.feed.entity, Len(net.vehicles.feed.entity) + 1)
    ELSE 0

WireStops ==
    IF net.trip_updates.outcome = "ok"
    THEN StopsBefore(net.trip_updates.feed.entity,
                     Len(net.trip_updates.feed.entity) + 1)
    ELSE 0

\* The parsed vehicle records of an invocation that fail validation
FailingVehicles(locals) ==
    Len(locals.vehicles) - Cardinality(ValidVehicleIndexes(locals.vehicles))

\* The report of the spec's case: two position entities, one of them without
\* position, and three stop time updates
TwoAndThree ==
    /\ WireVehicles = 2
    /\ WireStops = 3
    /\ FailingVehicles(inv[1]) = 1

(* C23: an invocation whose parsed vehicle records have no two valid ones with
   one key, whose parsed stop records are all valid with distinct keys, and
   whose archive writes succeeded, reports as parsed the number of position
   entities and of stop time updates on the wire, as cleaned the position
   entities less those failing validation and all stop time updates, and an
   archive location for each kind that has a cleaned record. *)
C23_EndToEndCounts ==
    LET L == inv[1]
        b == L.response.body
    IN  /\ Succeeded(1)
        /\ L.put_failed = {}
        /\ FirstVehicles(L.vehicles) = ValidVehicleIndexes(L.vehicles)
        /\ FirstTripUpdates(L.trip_updates) = DOMAIN L.trip_updates
        => /\ b.parsed = [vehicles |-> WireVehicles, trip_updates |-> WireStops]
           /\ b.cleaned = [vehicles |-> WireVehicles - FailingVehicles(L),
                           trip_updates |-> WireStops]
           /\ \A kind \in {"vehicles", "trip_updates"} :
                 b.cleaned[kind] > 0 => b.s3_keys[kind] # Null
           /\ TwoAndThree =>
                 /\ b.parsed = [vehicles |-> 2, trip_updates |-> 3]
                 /\ b.cleaned = [vehicles |-> 1, trip_updates |-> 3]
                 /\ b.s3_keys.vehicles # Null /\ b.s3_keys.trip_updates # Null

C23_Witness ==
    /\ Succeeded(1)
    /\ inv[1].put_failed = {}
    /\ FirstVehicles(inv[1].vehicles) = ValidVehicleIndexes(inv[1].vehicles)
    /\ FirstTripUpdates(inv[1].trip_updates) = DOMAIN inv[1].trip_updates
    /\ TwoAndThree
    /\ Get(inv[1].vehicles[2], "longitude") = Null


\* The route partition the spec names for a record
RoutePartition(record) ==
    IF Get(record, "route_id") = Null THEN Chars_UNKNOWN
    ELSE Format(Get(record, "route_id"))

\* A stored attribute holds the value of the record's field
SameValue(attribute, value) ==
    \/ attribute = value
    \/ attribute.k = "decimal" /\ value.k = "num" /\ attribute.v = value.v

(* C24: every item of the table has the pk "VEHICLE#" or "TRIP#" followed by
   the route_id of its record, or by "UNKNOWN" where the route_id is null, the
   sk made of the record's time and identifiers joined by "#", the
   record_type of its kind, and the fields of the record with their values. *)
C24_ItemShape ==
    \A key \in DOMAIN table :
       LET item == table[key]
           a == item.attributes
       IN  \/ /\ item.record_type = "vehicle_position"
              /\ item.pk = Chars_VEHICLE \o RoutePartition(a)
              /\ item.sk = Format(a.timestamp) \o <<"#">> \o Format(a.vehicle_id)
              /\ \E r \in Range(inv[1].clean_vehicles) :
                    \A f \in DOMAIN r : SameValue(a[f], r[f])
           \/ /\ item.record_type = "trip_update"
              /\ item.pk = Chars_TRIP \o RoutePartition(a)
              /\ item.sk = Format(a.feed_timestamp) \o <<"#">> \o Format(a.trip_id)
                             \o <<"#">> \o Format(a.stop_id)
              /\ \E r \in Range(inv[1].clean_trip_updates) :
                    \A f \in DOMAIN r : SameValue(a[f], r[f])


-----------------------------------------------------------------------------
(* The loader as the claims read it *)

(* C25: the scan of a load_* call passes the LastEvaluatedKey of each page as
   the start of the next, never holds more than 5000 items, and makes no scan
   after a page without LastEvaluatedKey. *)
C25_CappedScan ==
    loader.pc \in {"paging", "loaded"} =>
        /\ loader.items <= scan_cap
        /\ \A k \in DOMAIN loader.starts :
              loader.starts[k] = IF k = 1 THEN Absent ELSE Num(k - 1)
        /\ loader.pc = "loaded" =>
              \/ ~HasField(loader.response.LastEvaluatedKey)
              \/ loader.items >= scan_cap


-----------------------------------------------------------------------------
(* The order of the store writes *)

Reverse(s) == [k \in DOMAIN s |-> s[Len(s) + 1 - k]]

\* The last batch write was handed a list the quality gate returns as it is
WroteGateOutput ==
    /\ IsBatchWrite
    /\ dcall.rejected = {}
    /\ IF dcall.name = "vehicles"
       THEN CleanVehicles(dcall.records, {}).dedup.unique = dcall.records
       ELSE CleanTripUpdates(dcall.records, {}).dedup.unique = dcall.records

\* The table after the items of one chunk went out in one request
ChunkApplied(kind, chunk, items, now) ==
    Flush([table |-> items,
           buffer |-> [j \in DOMAIN chunk |->
                         [index |-> j, item |-> ItemOf(kind, chunk[j], now)]],
           success_count |-> 0, opened |-> <<>>, flushes |-> <<>>, raised |-> FALSE],
          {}).table

RECURSIVE ChunksApplied(_, _, _, _)
\* The table after the chunks went out one after the other in this order
ChunksApplied(kind, chunks, items, now) ==
    IF chunks = <<>> THEN items
    ELSE ChunksApplied(kind, Tail(chunks),
                       ChunkApplied(kind, Head(chunks), items, now), now)

\* Orders in which the chunks of the last batch write may be applied: the
\* chunks backwards, the items of each chunk backwards, and both
ChunkOrders ==
    LET chunks == dcall.opened
        inside == [c \in DOMAIN chunks |-> Reverse(chunks[c])]
    IN  {chunks, Reverse(chunks), inside, Reverse(inside)}

(* C26: after a batch write of a list the quality gate returned, the table
   holds the same items as after the chunks of the list applied in any other
   order, with the items inside them in any order. *)
C26_ChunkOrderIrrelevant ==
    WroteGateOutput /\ ~dcall.raised =>
        \A chunks \in ChunkOrders :
           ChunksApplied(dcall.name, chunks, EmptyTable, dcall.now) = table

\* The keys of the items of a list of records
KeysOf(kind, records, now) ==
    [j \in DOMAIN records |-> ItemKey(ItemOf(kind, records[j], now))]

(* C30: the records of a list the quality gate returned have pairwise distinct
   (pk, sk), no request of the batch write holds one key twice, and the table
   holds as many items as the list has records. *)
C30_DistinctAddresses ==
    WroteGateOutput =>
        LET keys == KeysOf(dcall.name, dcall.records, dcall.now)
        IN  /\ \A m, n \in DOMAIN keys : keys[m] = keys[n] => m = n
            /\ \A c \in DOMAIN dcall.flushes :
                  \A m, n \in DOMAIN dcall.flushes[c].indexes :
                     keys[dcall.flushes[c].indexes[m]] = keys[dcall.flushes[c].indexes[n]]
                        => m = n
            /\ Cardinality(DOMAIN table) = Len(dcall.records)


-----------------------------------------------------------------------------
(* The counters and the caches of the validator *)

VehicleCounters(st) ==
    <<st.vehicles_processed, st.vehicles_valid, st.vehicles_invalid,
      st.vehicles_duplicate>>

TripUpdateCounters(st) ==
    <<st.trip_updates_processed, st.trip_updates_valid, st.trip_updates_invalid,
      st.trip_updates_duplicate>>

(* C27: per kind processed = valid + invalid at all times; every
   validate-and-clean call raises valid by what it raises duplicate plus the
   number of records it returns, so that between two reset_stats calls
   valid = duplicate + records returned; reset_stats sets every counter to 0;
   a call for one kind leaves the counters and the cache of the other kind as
   they were. *)
C27_Step ==
    /\ stats'.vehicles_processed = stats'.vehicles_valid + stats'.vehicles_invalid
    /\ stats'.trip_updates_processed
          = stats'.trip_updates_valid + stats'.trip_updates_invalid
    /\ op'.name = "reset_stats" => stats' = ZeroStats
    /\ IsVehicleCall(op') =>
          /\ stats'.vehicles_processed = stats.vehicles_processed + Len(op'.input)
          /\ stats'.vehicles_valid - stats.vehicles_valid
                = (stats'.vehicles_duplicate - stats.vehicles_duplicate)
                  + Len(op'.output)
          /\ TripUpdateCounters(stats') = TripUpdateCounters(stats)
          /\ seen_trip_updates' = seen_trip_updates
    /\ IsTripUpdateCall(op') =>
          /\ stats'.trip_updates_processed
                = stats.trip_updates_processed + Len(op'.input)
          /\ stats'.trip_updates_valid - stats.trip_updates_valid
                = (stats'.trip_updates_duplicate - stats.trip_updates_duplicate)
                  + Len(op'.output)
          /\ VehicleCounters(stats') = VehicleCounters(stats)
          /\ seen_vehicles' = seen_vehicles

C27_CountersConserved == [][C27_Step]_vars

\* A vehicle call that returned a record, with an invalid and a duplicate
\* vehicle record counted, while trip update counters and keys are held
C27_Witness ==
    /\ IsVehicleCall(op)
    /\ op.output # <<>>
    /\ stats.vehicles_invalid > 0
    /\ stats.vehicles_duplicate > op.dupBefore
    /\ stats.vehicles_valid
          = stats.vehicles_duplicate + BagCardinality(accepted.vehicles)
    /\ stats.trip_updates_valid > 0
    /\ seen_trip_updates # {}


RECURSIVE IsSubsequence(_, _)
\* s is t with some of its elements left out
IsSubsequence(s, t) ==
    IF s = <<>> THEN TRUE
    ELSE IF t = <<>> THEN FALSE
    ELSE IF Head(s) = Head(t) THEN IsSubsequence(Tail(s), Tail(t))
    ELSE IsSubsequence(s, Tail(t))

\* Each cache holds one key for each record returned since the last
\* reset_dedup_cache and no other; the list a call returned is its input with
\* records left out, and no two of its records have one natural key
C28_CacheIsReturned ==
    /\ seen_vehicles = { VehicleKey(r) : r \in BagToSet(accepted.vehicles) }
    /\ Cardinality(seen_vehicles) = BagCardinality(accepted.vehicles)
    /\ seen_trip_updates = { TripUpdateKey(r) : r \in BagToSet(accepted.trip_updates) }
    /\ Cardinality(seen_trip_updates) = BagCardinality(accepted.trip_updates)
    /\ IsVehicleCall(op) =>
          /\ IsSubsequence(op.output, op.input)
          /\ \A m, n \in DOMAIN op.output :
                VehicleNaturalKey(op.output[m]) = VehicleNaturalKey(op.output[n])
                   => m = n
    /\ IsTripUpdateCall(op) =>
          /\ IsSubsequence(op.output, op.input)
          /\ \A m, n \in DOMAIN op.output :
                TripUpdateNaturalKey(op.output[m]) = TripUpdateNaturalKey(op.output[n])
                   => m = n

\* Only reset_dedup_cache takes a key out of a cache
C28_CacheGrows ==
    op'.name # "reset_dedup_cache" =>
        /\ seen_vehicles \subseteq seen_vehicles'
        /\ seen_trip_updates \subseteq seen_trip_updates'

(* C28: each cache holds exactly the keys of the records returned since the
   last reset_dedup_cache; every returned list is an order-preserving
   subsequence of its input with pairwise distinct natural keys; a cache loses
   a key only through reset_dedup_cache. *)
C28_CacheTracksReturned == []C28_CacheIsReturned /\ [][C28_CacheGrows]_vars

\* A trip update call returned two of the three or more records it was given,
\* on a validator that holds vehicle keys as well
C28_Witness ==
    /\ IsTripUpdateCall(op)
    /\ Len(op.output) = 2
    /\ Len(op.input) > 2
    /\ seen_trip_updates = { TripUpdateKey(op.output[1]), TripUpdateKey(op.output[2]) }
    /\ seen_vehicles # {}


(* C29: a valid record a call did not return has the natural-key tuple of a
   record returned since the last reset_dedup_cache: each valid record of the
   input has its tuple among the returned records, whatever characters its
   identifiers hold. *)
C29_DroppedOnlyForSameTuple ==
    /\ IsVehicleCall(op) =>
          \A i \in ValidVehicleIndexes(op.input) :
             \E r \in BagToSet(accepted.vehicles) :
                VehicleNaturalKey(r) = VehicleNaturalKey(op.input[i])
    /\ IsTripUpdateCall(op) =>
          \A i \in ValidTripUpdateIndexes(op.input) :
             \E r \in BagToSet(accepted.trip_updates) :
                TripUpdateNaturalKey(r) = TripUpdateNaturalKey(op.input[i])

====
